---- MODULE Spec2Model ----
(***************************************************************************)
(* Nu-sui: gear-combination model of a bicycle drivetrain.                 *)
(*                                                                         *)
(* The model follows src/nu-sui_EN.py (src/nu-sui_ES.py is the same        *)
(* program with Spanish strings).  Lengths are kept as integers:           *)
(* wheel circumferences are in millimetres (the catalogue's metres with    *)
(* three decimals, times 1000), and every quotient the program computes    *)
(* in floating point is kept as an exact fraction [num, den].  Where the   *)
(* program decides on such a value (round(), diff < min_diff, a threshold  *)
(* of the overlap analysis) and the exact value lies on the boundary, the  *)
(* decision is taken on the IEEE-754 doubles the program computes, which   *)
(* the model computes bit by bit.                                          *)
(* Sequences are 1-based in TLA+; the program's 0-based indices are kept   *)
(* as they are and shifted by one only where a sequence is read.           *)
(***************************************************************************)
EXTENDS Integers, Sequences, FiniteSets, TLC

(***************************************************************************)
(* Program constants.                                                      *)
(***************************************************************************)
DEFAULT_CADENCE == 80
MIN_CADENCE == 60
MAX_CADENCE == 100
MIN_TEETH == 11
MAX_TEETH == 53

\* wheel_sizes: size label -> circumference, in millimetres.
wheel_sizes ==
    ("700x18C" :> 2070) @@
    ("700x19C" :> 2080) @@
    ("700x20C" :> 2086) @@
    ("700x23C" :> 2096) @@
    ("700x25C" :> 2105) @@
    ("700x26C" :> 2115) @@
    ("700C" :> 2130) @@
    ("700x28C" :> 2136) @@
    ("700x30C" :> 2146) @@
    ("700x32C" :> 2155) @@
    ("700x35C" :> 2168) @@
    ("700x38C" :> 2180) @@
    ("700x40C" :> 2200) @@
    ("700x44C" :> 2235) @@
    ("700x45C" :> 2242) @@
    ("700x47C" :> 2268) @@
    ("650x20C" :> 1938) @@
    ("650x23C" :> 1944) @@
    ("650x35A" :> 2090) @@
    ("650x38B" :> 2105) @@
    ("650x38A" :> 2125) @@
    ("12x1.75" :> 935) @@
    ("12x1.95" :> 940) @@
    ("14x1.50" :> 1020) @@
    ("14x1.75" :> 1055) @@
    ("16x1.50" :> 1185) @@
    ("16x1.75" :> 1195) @@
    ("16x2.00" :> 1245) @@
    ("16x1-1/8" :> 1290) @@
    ("16x1-3/8" :> 1300) @@
    ("18x1.50" :> 1340) @@
    ("18x1.75" :> 1350) @@
    ("20x1.25" :> 1450) @@
    ("20x1.35" :> 1460) @@
    ("20x1.50" :> 1490) @@
    ("20x1.75" :> 1515) @@
    ("20x1.95" :> 1565) @@
    ("20x1-1/8" :> 1545) @@
    ("20x1-3/8" :> 1615) @@
    ("22x1-3/8" :> 1770) @@
    ("22x1-1/2" :> 1785) @@
    ("24x3/4" :> 1785) @@
    ("24x1" :> 1753) @@
    ("24x1-1/8" :> 1795) @@
    ("24x1-1/4" :> 1905) @@
    ("24x1.75" :> 1890) @@
    ("24x2.00" :> 1925) @@
    ("24x2.125" :> 1965) @@
    ("26x7/8" :> 1920) @@
    ("26x1.25" :> 1950) @@
    ("26x1.40" :> 2005) @@
    ("26x1.50" :> 2010) @@
    ("26x1.75" :> 2023) @@
    ("26x1.95" :> 2050) @@
    ("26x2.00" :> 2055) @@
    ("26x2.1" :> 2068) @@
    ("26x2.125" :> 2070) @@
    ("26x2.35" :> 2083) @@
    ("26x3.00" :> 2170) @@
    ("26x1-1.0" :> 1913) @@
    ("26x1" :> 1952) @@
    ("26x1-1/8" :> 1970) @@
    ("26x1-3/8" :> 2068) @@
    ("26x1-1/2" :> 2100) @@
    ("27x1" :> 2145) @@
    ("27x1-1/8" :> 2155) @@
    ("27x1-1/4" :> 2161) @@
    ("27x1-3/8" :> 2169) @@
    ("27.5x1.50" :> 2079) @@
    ("27.5x1.95" :> 2090) @@
    ("27.5x2.10" :> 2148) @@
    ("27.5x2.25" :> 2182) @@
    ("29x2.25" :> 2281) @@
    ("29x2.1" :> 2288) @@
    ("29x2.2" :> 2298) @@
    ("29x2.3" :> 2326)

(***************************************************************************)
(* Arithmetic helpers.                                                     *)
(***************************************************************************)
Max(a, b) == IF a >= b THEN a ELSE b

Abs(x) == IF x < 0 THEN 0 - x ELSE x

\* round(x) of Python 3 for x = num/den >= 0: the nearest integer, a tie
\* going to the even neighbour.
PyRound(num, den) ==
    LET q == num \div den
        r == num % den
    IN  IF 2 * r > den THEN q + 1
        ELSE IF 2 * r < den THEN q
        ELSE IF q % 2 = 0 THEN q ELSE q + 1

(***************************************************************************)
(* IEEE-754 binary64 arithmetic, as CPython's float uses it.  A natural    *)
(* number of any size is a sequence of limbs below 2^15, least significant *)
(* first, without a zero at the end.  A double is [sign, m, e] with value  *)
(* sign * m * 2^e, where m has exactly 53 bits (sign = 0, m = << >> for    *)
(* zero).  Every operation rounds the exact result to the nearest double,  *)
(* ties to the even mantissa.  Subnormals, infinities and NaN do not occur *)
(* for the magnitudes of the program.  The model computes with exact       *)
(* fractions and turns to the doubles where the exact value sits on the    *)
(* boundary of a decision (a tie of round(), two equal differences, a      *)
(* percentage equal to its threshold): off the boundary the rounding error *)
(* of the doubles, below 2^-40, cannot change the decision.                *)
(***************************************************************************)
LIMB == 2 ^ 15

\* the hidden bit and the 52 bits stored
MANTISSA_BITS == 1 + 52

RECURSIVE BigNorm(_)
BigNorm(a) ==
    IF a = << >> THEN a
    ELSE IF a[Len(a)] = 0 THEN BigNorm(SubSeq(a, 1, Len(a) - 1))
    ELSE a

RECURSIVE BigOfInt(_)
BigOfInt(n) == IF n = 0 THEN << >> ELSE << n % LIMB >> \o BigOfInt(n \div LIMB)

RECURSIVE BigToInt(_)
BigToInt(a) == IF a = << >> THEN 0 ELSE Head(a) + LIMB * BigToInt(Tail(a))

RECURSIVE BigAddCarry(_, _, _)
BigAddCarry(a, b, carry) ==
    IF a = << >> /\ b = << >>
    THEN IF carry = 0 THEN << >> ELSE << carry >>
    ELSE LET s == (IF a = << >> THEN 0 ELSE Head(a))
                  + (IF b = << >> THEN 0 ELSE Head(b)) + carry
         IN  << s % LIMB >>
             \o BigAddCarry(IF a = << >> THEN a ELSE Tail(a),
                            IF b = << >> THEN b ELSE Tail(b), s \div LIMB)

BigAdd(a, b) == BigAddCarry(a, b, 0)

\* a - b for a >= b
RECURSIVE BigSubBorrow(_, _, _)
BigSubBorrow(a, b, borrow) ==
    IF a = << >> THEN << >>
    ELSE LET d == Head(a) - (IF b = << >> THEN 0 ELSE Head(b)) - borrow
         IN  << IF d < 0 THEN d + LIMB ELSE d >>
             \o BigSubBorrow(Tail(a), IF b = << >> THEN b ELSE Tail(b),
                             IF d < 0 THEN 1 ELSE 0)

BigSub(a, b) == BigNorm(BigSubBorrow(a, b, 0))

\* -1, 0 or 1 as a < b, a = b or a > b
RECURSIVE BigCmpFrom(_, _, _)
BigCmpFrom(a, b, x) ==
    IF x = 0 THEN 0
    ELSE IF a[x] < b[x] THEN -1
    ELSE IF a[x] > b[x] THEN 1
    ELSE BigCmpFrom(a, b, x - 1)

BigCmp(a, b) ==
    IF Len(a) < Len(b) THEN -1
    ELSE IF Len(a) > Len(b) THEN 1
    ELSE BigCmpFrom(a, b, Len(a))

\* a * s + carry for 0 <= s < LIMB
RECURSIVE BigMulSmallCarry(_, _, _)
BigMulSmallCarry(a, s, carry) ==
    IF a = << >> THEN (IF carry = 0 THEN << >> ELSE << carry >>)
    ELSE LET p == Head(a) * s + carry
         IN  << p % LIMB >> \o BigMulSmallCarry(Tail(a), s, p \div LIMB)

BigMulSmall(a, s) == BigNorm(BigMulSmallCarry(a, s, 0))

BigShiftLimbs(a, k) == IF a = << >> THEN a ELSE [x \in 1..k |-> 0] \o a

RECURSIVE BigMul(_, _)
BigMul(a, b) ==
    IF b = << >> \/ a = << >> THEN << >>
    ELSE IF Head(b) = 0 THEN BigShiftLimbs(BigMul(a, Tail(b)), 1)
    ELSE BigAdd(BigMulSmall(a, Head(b)), BigShiftLimbs(BigMul(a, Tail(b)), 1))

\* a * 2^k
BigShl(a, k) == BigShiftLimbs(BigMulSmall(a, 2 ^ (k % 15)), k \div 15)

\* quotient of a by d for 0 < d < LIMB
RECURSIVE BigDivSmallFrom(_, _, _)
BigDivSmallFrom(a, d, r) ==
    IF a = << >> THEN << >>
    ELSE LET cur == r * LIMB + a[Len(a)]
         IN  BigDivSmallFrom(SubSeq(a, 1, Len(a) - 1), d, cur % d)
             \o << cur \div d >>

BigDivSmall(a, d) == BigNorm(BigDivSmallFrom(a, d, 0))

\* remainder of a by d for 0 < d < LIMB, from limb x down
RECURSIVE BigModSmallFrom(_, _, _, _)
BigModSmallFrom(a, d, x, r) ==
    IF x = 0 THEN r ELSE BigModSmallFrom(a, d, x - 1, (r * LIMB + a[x]) % d)

BigModSmall(a, d) == BigModSmallFrom(a, d, Len(a), 0)

\* floor(a / 2^k)
BigShr(a, k) ==
    BigDivSmall(IF k \div 15 >= Len(a) THEN << >>
                ELSE SubSeq(a, k \div 15 + 1, Len(a)), 2 ^ (k % 15))

RECURSIVE SmallBitLen(_)
SmallBitLen(n) == IF n = 0 THEN 0 ELSE 1 + SmallBitLen(n \div 2)

BitLen(a) == IF a = << >> THEN 0 ELSE 15 * (Len(a) - 1) + SmallBitLen(a[Len(a)])

\* the number of zero bits below the lowest bit set, for n > 0 and a # << >>
RECURSIVE SmallTrailingZeros(_)
SmallTrailingZeros(n) == IF n % 2 = 1 THEN 0 ELSE 1 + SmallTrailingZeros(n \div 2)

RECURSIVE ZeroLimbs(_)
ZeroLimbs(a) == IF Head(a) # 0 THEN 0 ELSE 1 + ZeroLimbs(Tail(a))

TrailingZeros(a) == 15 * ZeroLimbs(a) + SmallTrailingZeros(a[ZeroLimbs(a) + 1])

\* Long division in limbs.  The divisor b is scaled to a top limb of at
\* least LIMB / 2; then the quotient of the two top limbs of the remainder
\* by the top limb of b is the quotient limb, or above it by 1 or 2.
BigLimb(a, x) == IF x <= Len(a) THEN a[x] ELSE 0

limb_estimate(r, b, j) ==
    (BigLimb(r, j + Len(b) + 1) * LIMB + BigLimb(r, j + Len(b))) \div b[Len(b)]

\* the t with t * b * LIMB^j <= r < (t + 1) * b * LIMB^j
quotient_limb(r, b, j, estimate) ==
    CHOOSE t \in (estimate - 2)..estimate :
        /\ t >= 0
        /\ t < LIMB
        /\ BigCmp(BigShiftLimbs(BigMulSmall(b, t), j), r) <= 0
        /\ BigCmp(BigShiftLimbs(BigMulSmall(b, t + 1), j), r) > 0

big_div_join(t, rest) == [q |-> rest.q \o << t >>, r |-> rest.r]

RECURSIVE BigDivFrom(_, _, _)
big_div_limb(r, b, j, t) ==
    big_div_join(t, BigDivFrom(BigSub(r, BigShiftLimbs(BigMulSmall(b, t), j)), b, j - 1))

BigDivFrom(r, b, j) ==
    IF j < 0 THEN [q |-> << >>, r |-> r]
    ELSE big_div_limb(r, b, j,
                      quotient_limb(r, b, j,
                                    IF limb_estimate(r, b, j) < LIMB
                                    THEN limb_estimate(r, b, j) ELSE LIMB - 1))

big_div_scaled(d, shift) == [q |-> BigNorm(d.q), r |-> BigShr(d.r, shift)]

big_div_shift(a, b, shift) ==
    big_div_scaled(BigDivFrom(BigShl(a, shift), BigShl(b, shift),
                              Len(BigShl(a, shift)) - Len(b)),
                   shift)

\* quotient and remainder of a by b > 0
BigDivMod(a, b) == big_div_shift(a, b, 15 - SmallBitLen(b[Len(b)]))

FloatZero == [sign |-> 0, m |-> << >>, e |-> 0]

\* The nearest double to sign * (n + f) * 2^e, where 0 < f < 1 when sticky
\* and f = 0 otherwise; n has at least 55 bits when sticky.
round_up(q, r, half, sticky) ==
    \/ BigCmp(r, half) > 0
    \/ BigCmp(r, half) = 0 /\ (sticky \/ q[1] % 2 = 1)

round_mantissa(sign, q, e, up) ==
    IF up /\ BitLen(BigAdd(q, << 1 >>)) > MANTISSA_BITS
    THEN [sign |-> sign, m |-> BigShr(BigAdd(q, << 1 >>), 1), e |-> e + 1]
    ELSE [sign |-> sign, m |-> IF up THEN BigAdd(q, << 1 >>) ELSE q, e |-> e]

round_shifted(sign, n, e, sticky, k, q) ==
    round_mantissa(sign, q, e + k,
                   round_up(q, BigSub(n, BigShl(q, k)), BigShl(<< 1 >>, k - 1), sticky))

round_double(sign, n, e, sticky) ==
    IF n = << >> THEN FloatZero
    ELSE IF BitLen(n) <= MANTISSA_BITS
    THEN [sign |-> sign, m |-> BigShl(n, MANTISSA_BITS - BitLen(n)),
          e |-> e - (MANTISSA_BITS - BitLen(n))]
    ELSE round_shifted(sign, n, e, sticky, BitLen(n) - MANTISSA_BITS,
                       BigShr(n, BitLen(n) - MANTISSA_BITS))

\* float(n) for an int n
float_of_int(n) ==
    round_double(IF n < 0 THEN -1 ELSE 1, BigOfInt(IF n < 0 THEN -n ELSE n), 0, FALSE)

float_mul(x, y) ==
    IF x.sign = 0 \/ y.sign = 0 THEN FloatZero
    ELSE round_double(x.sign * y.sign, BigMul(x.m, y.m), x.e + y.e, FALSE)

float_quotient(sign, d, e) == round_double(sign, d.q, e, d.r # << >>)

\* the quotient of n * 2^e by d, for 0 < d < LIMB
float_quotient_short(sign, n, d, e) ==
    round_double(sign, BigDivSmall(n, d), e, BigModSmall(n, d) # 0)

\* x / y for y # 0.  A mantissa of y that is d * 2^k with d < LIMB (the
\* double of an int below LIMB) is divided by as d, in one pass.
float_div(x, y) ==
    IF x.sign = 0 THEN FloatZero
    ELSE IF BitLen(y.m) - TrailingZeros(y.m) <= 15
    THEN float_quotient_short(x.sign * y.sign, BigShl(x.m, 55),
                              BigToInt(BigShr(y.m, TrailingZeros(y.m))),
                              x.e - y.e - TrailingZeros(y.m) - 55)
    ELSE float_quotient(x.sign * y.sign, BigDivMod(BigShl(x.m, 55), y.m),
                        x.e - y.e - 55)

float_neg(x) == [x EXCEPT !.sign = -x.sign]

float_abs(x) == [x EXCEPT !.sign = IF x.sign = 0 THEN 0 ELSE 1]

\* the sum of two non-zero doubles whose mantissas a and b are aligned at
\* the exponent e
float_add_aligned(sx, a, sy, b, e) ==
    IF sx = sy THEN round_double(sx, BigAdd(a, b), e, FALSE)
    ELSE IF BigCmp(a, b) > 0 THEN round_double(sx, BigSub(a, b), e, FALSE)
    ELSE IF BigCmp(a, b) < 0 THEN round_double(sy, BigSub(b, a), e, FALSE)
    ELSE FloatZero

float_add(x, y) ==
    IF x.sign = 0 THEN y
    ELSE IF y.sign = 0 THEN x
    ELSE IF x.e <= y.e
    THEN float_add_aligned(x.sign, x.m, y.sign, BigShl(y.m, y.e - x.e), x.e)
    ELSE float_add_aligned(x.sign, BigShl(x.m, x.e - y.e), y.sign, y.m, y.e)

float_sub(x, y) == float_add(x, float_neg(y))

\* x < y
float_less(x, y) == float_sub(x, y).sign < 0

\* a / b for ints a, b with b # 0, and the float of the decimal literal
\* written a/b
float_of_ratio(a, b) == float_div(float_of_int(a), float_of_int(b))

\* round(x) of a double x >= 0: the nearest int, a tie to the even one
float_round_down(q, r, half) ==
    BigToInt(IF BigCmp(r, half) > 0 \/ (BigCmp(r, half) = 0 /\ q # << >> /\ q[1] % 2 = 1)
             THEN BigAdd(q, << 1 >>) ELSE q)

float_round(x) ==
    IF x.sign = 0 THEN 0
    ELSE IF x.e >= 0 THEN BigToInt(BigShl(x.m, x.e))
    ELSE float_round_down(BigShr(x.m, -x.e),
                          BigSub(x.m, BigShl(BigShr(x.m, -x.e), -x.e)),
                          BigShl(<< 1 >>, -x.e - 1))

\* round(n * c) for an int n >= 0 and the float literal c = hundredths/100.
\* An exact product that is no tie rounds as its double does; at a tie
\* (90 * 0.35 is 31.499999999999996) the double decides.
round_product(n, hundredths) ==
    IF (n * hundredths) % 100 = 50
    THEN float_round(float_mul(float_of_int(n), float_of_ratio(hundredths, 100)))
    ELSE PyRound(n * hundredths, 100)

(***************************************************************************)
(* State of the NuSui object.                                              *)
(***************************************************************************)
VARIABLES
    crankset_teeth,        \* self.crankset_teeth: chainring teeth
    cassette_teeth,        \* self.cassette_teeth: sprocket teeth
    wheel_size_var,        \* self.wheel_size_var: selected wheel size label
    wheel_combo_values,    \* self.wheel_combo['values']: labels offered
    bike_type_var,         \* self.bike_type_var: selected radio button
    manual_config_button,  \* state of self.manual_config_button
    cadencia_var,          \* self.cadencia_var: cadence slider, rpm
    target_speed_var,      \* self.target_speed_var: speed slider, km/h
    slope_var,             \* self.slope_var: slope slider, percent
    results_frame,         \* what self.results_frame shows
    crossing_check,        \* last direct call of is_chain_crossing
    presets,               \* bike_types, as the radio buttons hold them
    technical_mode,        \* self.technical_mode: Technical/Sport selected
    visual_tab,            \* what self.visual_tab shows: the gear table
    tech_tab,              \* what self.tech_tab shows: the overlap analysis
    validation_check,      \* last direct call of validate_gear_configuration
    ratio_check            \* last direct call of calculate_gear_ratio

vars == << crankset_teeth, cassette_teeth, wheel_size_var, wheel_combo_values,
           bike_type_var, manual_config_button, cadencia_var,
           target_speed_var, slope_var, results_frame, crossing_check,
           presets, technical_mode, visual_tab, tech_tab, validation_check,
           ratio_check >>

(***************************************************************************)
(* Chain-crossing classifier.                                              *)
(***************************************************************************)
NoCrossing == [crossing |-> FALSE, message |-> "None"]

Crossing(msg) == [crossing |-> TRUE, message |-> msg]

MSG_LARGE == "Large chainring with large sprocket: increases wear and reduces efficiency"
MSG_SMALL == "Small chainring with small sprocket: increases wear and reduces efficiency"
MSG_MIDDLE == "Middle chainring with extreme sprocket: may cause wear"
MSG_INTERMEDIATE == "Intermediate chainring with extreme sprocket: may cause wear"

\* Mutant of extreme_count_double: at least 3 sprockets are extremes.
extreme_count_double_3(num_sprockets) == Max(3, round_product(num_sprockets, 35))

\* Mutant of extreme_count_double: the triple chainring's 40% is taken.
extreme_count_double_40(num_sprockets) == Max(2, round_product(num_sprockets, 40))

\* Double chainring: 35% of the sprockets are extremes, at least 2.
extreme_count_double(num_sprockets) == Max(2, round_product(num_sprockets, 35))

\* Triple chainring: 40% of the sprockets are extremes, at least 2.
extreme_count_large(num_sprockets) == Max(2, round_product(num_sprockets, 40))

extreme_count_small(num_sprockets) == Max(2, round_product(num_sprockets, 40))

\* Mutant of medium_extreme_large: at least 2 sprockets, as for the large
\* chainring.
medium_extreme_large_2(num_sprockets) == Max(2, round_product(num_sprockets, 15))

\* Triple chainring, middle chainring: 15% of the sprockets, at least 1.
medium_extreme_large(num_sprockets) == Max(1, round_product(num_sprockets, 15))

medium_extreme_small(num_sprockets) == Max(1, round_product(num_sprockets, 15))

\* Mutant of extreme_count_general: the max(1, ...) is forgotten.
extreme_count_general_0(num_sprockets) == round_product(num_sprockets, 30)

\* Any other number of chainrings: 30% of the sprockets, at least 1.
extreme_count_general(num_sprockets) == Max(1, round_product(num_sprockets, 30))

\* Mutant of crossing_double: the large chainring's test is > instead of >=.
crossing_double_strict(num_chainrings, num_sprockets, chainring_idx, sprocket_idx) ==
    LET extreme_count == extreme_count_double(num_sprockets)
    IN  IF chainring_idx = 0 /\ sprocket_idx > num_sprockets - extreme_count
        THEN Crossing(MSG_LARGE)
        ELSE IF chainring_idx = num_chainrings - 1 /\ sprocket_idx < extreme_count
        THEN Crossing(MSG_SMALL)
        ELSE NoCrossing

\* The branch num_chainrings == 2.
crossing_double(num_chainrings, num_sprockets, chainring_idx, sprocket_idx) ==
    LET extreme_count == extreme_count_double(num_sprockets)
    IN  IF chainring_idx = 0 /\ sprocket_idx >= num_sprockets - extreme_count
        THEN Crossing(MSG_LARGE)
        ELSE IF chainring_idx = num_chainrings - 1 /\ sprocket_idx < extreme_count
        THEN Crossing(MSG_SMALL)
        ELSE NoCrossing

\* Mutant of crossing_triple: the middle chainring is tested against the
\* large sprockets only.
crossing_triple_half(num_chainrings, num_sprockets, chainring_idx, sprocket_idx) ==
    IF chainring_idx = 0
       /\ sprocket_idx >= num_sprockets - extreme_count_large(num_sprockets)
    THEN Crossing(MSG_LARGE)
    ELSE IF chainring_idx = num_chainrings - 1
            /\ sprocket_idx < extreme_count_small(num_sprockets)
    THEN Crossing(MSG_SMALL)
    ELSE IF chainring_idx = 1
            /\ sprocket_idx >= num_sprockets - medium_extreme_large(num_sprockets)
    THEN Crossing(MSG_MIDDLE)
    ELSE NoCrossing

\* The branch num_chainrings == 3.
crossing_triple(num_chainrings, num_sprockets, chainring_idx, sprocket_idx) ==
    IF chainring_idx = 0
       /\ sprocket_idx >= num_sprockets - extreme_count_large(num_sprockets)
    THEN Crossing(MSG_LARGE)
    ELSE IF chainring_idx = num_chainrings - 1
            /\ sprocket_idx < extreme_count_small(num_sprockets)
    THEN Crossing(MSG_SMALL)
    ELSE IF chainring_idx = 1
            /\ (sprocket_idx >= num_sprockets - medium_extreme_large(num_sprockets)
                \/ sprocket_idx < medium_extreme_small(num_sprockets))
    THEN Crossing(MSG_MIDDLE)
    ELSE NoCrossing

\* Mutant of crossing_general: an intermediate chainring is tested against
\* the smallest sprocket only.
crossing_general_first(num_chainrings, num_sprockets, chainring_idx, sprocket_idx) ==
    LET extreme_count == extreme_count_general(num_sprockets)
    IN  IF chainring_idx = 0 /\ sprocket_idx >= num_sprockets - extreme_count
        THEN Crossing(MSG_LARGE)
        ELSE IF chainring_idx = num_chainrings - 1 /\ sprocket_idx < extreme_count
        THEN Crossing(MSG_SMALL)
        ELSE IF num_chainrings > 2
                /\ 0 < chainring_idx /\ chainring_idx < num_chainrings - 1
                /\ sprocket_idx = 0
        THEN Crossing(MSG_INTERMEDIATE)
        ELSE NoCrossing

\* The else branch: any other number of chainrings.
crossing_general(num_chainrings, num_sprockets, chainring_idx, sprocket_idx) ==
    LET extreme_count == extreme_count_general(num_sprockets)
    IN  IF chainring_idx = 0 /\ sprocket_idx >= num_sprockets - extreme_count
        THEN Crossing(MSG_LARGE)
        ELSE IF chainring_idx = num_chainrings - 1 /\ sprocket_idx < extreme_count
        THEN Crossing(MSG_SMALL)
        ELSE IF num_chainrings > 2
                /\ 0 < chainring_idx /\ chainring_idx < num_chainrings - 1
                /\ (sprocket_idx = 0 \/ sprocket_idx >= num_sprockets - 1)
        THEN Crossing(MSG_INTERMEDIATE)
        ELSE NoCrossing

\* Mutant of is_chain_crossing: the early return is taken for no chainring
\* only (< 1 instead of <= 1).
is_chain_crossing_lt(chainring_idx, sprocket_idx) ==
    LET num_chainrings == Len(crankset_teeth)
        num_sprockets == Len(cassette_teeth)
    IN  IF num_chainrings < 1 THEN NoCrossing
        ELSE IF num_chainrings = 2
        THEN crossing_double(num_chainrings, num_sprockets, chainring_idx, sprocket_idx)
        ELSE IF num_chainrings = 3
        THEN crossing_triple(num_chainrings, num_sprockets, chainring_idx, sprocket_idx)
        ELSE crossing_general(num_chainrings, num_sprockets, chainring_idx, sprocket_idx)

\* is_chain_crossing(chainring_idx, sprocket_idx) -> (bool, message): reads
\* only the lengths of the two teeth lists.
is_chain_crossing(chainring_idx, sprocket_idx) ==
    LET num_chainrings == Len(crankset_teeth)
        num_sprockets == Len(cassette_teeth)
    IN  IF num_chainrings <= 1 THEN NoCrossing
        ELSE IF num_chainrings = 2
        THEN crossing_double(num_chainrings, num_sprockets, chainring_idx, sprocket_idx)
        ELSE IF num_chainrings = 3
        THEN crossing_triple(num_chainrings, num_sprockets, chainring_idx, sprocket_idx)
        ELSE crossing_general(num_chainrings, num_sprockets, chainring_idx, sprocket_idx)

(***************************************************************************)
(* Exact fractions [num, den] with den > 0, standing for the program's     *)
(* floats.  den = 0 marks the two values that are no number: None (what a  *)
(* method wrapped by handle_errors returns after an exception) and         *)
(* float('inf').                                                           *)
(***************************************************************************)
RECURSIVE GCD(_, _)
GCD(a, b) == IF b = 0 THEN a ELSE GCD(b, a % b)

None == [num |-> 0, den |-> 0]

Inf == [num |-> 1, den |-> 0]

Frac(n, d) ==
    LET g == GCD(Abs(n), d)
    IN  [num |-> n \div g, den |-> d \div g]

FracMul(x, y) ==
    LET g1 == GCD(Abs(x.num), y.den)
        g2 == GCD(Abs(y.num), x.den)
    IN  Frac((x.num \div g1) * (y.num \div g2), (x.den \div g2) * (y.den \div g1))

FracSubInt(x, n) == Frac(x.num - n * x.den, x.den)

FracAbs(x) == [num |-> Abs(x.num), den |-> x.den]

\* a/b < c/d for b, d > 0, by continued fractions (no product is formed).
RECURSIVE QuotLess(_, _, _, _)
QuotLess(a, b, c, d) ==
    LET q1 == a \div b
        r1 == a % b
        q2 == c \div d
        r2 == c % d
    IN  IF q1 # q2 THEN q1 < q2
        ELSE IF r2 = 0 THEN FALSE
        ELSE IF r1 = 0 THEN TRUE
        ELSE QuotLess(d, r2, b, r1)

\* x < y, where y may be float('inf').
FracLess(x, y) ==
    IF y = Inf THEN x # Inf
    ELSE IF x = Inf THEN FALSE
    ELSE QuotLess(x.num, x.den, y.num, y.den)

(***************************************************************************)
(* Gear math.                                                              *)
(***************************************************************************)
\* handle_errors: the wrapper runs the method; "except Exception" shows an
\* error box and falls off the end, so the caller gets None and never an
\* exception.  outcome is what the undecorated method does.
handle_errors(outcome) ==
    [raised |-> FALSE, value |-> IF outcome.raised THEN None ELSE outcome.value]

\* Mutant of gear_ratio_body: sprocket / chainring.
gear_ratio_body_inverted(chainring, sprocket) ==
    IF sprocket = 0 THEN [raised |-> TRUE, value |-> None]
    ELSE [raised |-> FALSE, value |-> Frac(sprocket, chainring)]

\* The body of calculate_gear_ratio: ValueError for sprocket == 0, else
\* chainring / sprocket.
gear_ratio_body(chainring, sprocket) ==
    IF sprocket = 0 THEN [raised |-> TRUE, value |-> None]
    ELSE [raised |-> FALSE, value |-> Frac(chainring, sprocket)]

\* calculate_gear_ratio, with handle_errors around it: the ValueError for
\* sprocket == 0 is caught by the decorator, and the caller gets None.
calculate_gear_ratio(chainring, sprocket) ==
    handle_errors(gear_ratio_body(chainring, sprocket)).value

\* calculate_speed, with handle_errors around it: km/h at the cadence;
\* None when the wheel size is no key of wheel_sizes or gear_ratio is None.
calculate_speed(gear_ratio, cadence) ==
    IF gear_ratio = None \/ wheel_size_var \notin DOMAIN wheel_sizes THEN None
    ELSE FracMul(FracMul(gear_ratio, Frac(wheel_sizes[wheel_size_var], 1000)),
                 Frac(cadence * 60, 1000))

\* adjusted_speed = speed * (1 - slope/100 * 0.1)
adjusted_speed(speed, slope) == FracMul(speed, Frac(1000 - slope, 1000))

\* Mutant of speed_diff: the abs() is forgotten.
speed_diff_signed(adjusted, target_speed) == FracSubInt(adjusted, target_speed)

\* diff = abs(adjusted_speed - target_speed)
speed_diff(adjusted, target_speed) == FracAbs(FracSubInt(adjusted, target_speed))

\* The doubles the search computes for a pair:
\* "chainring / sprocket" for a sprocket that is not 0,
double_gear_ratio(chainring, sprocket) == float_of_ratio(chainring, sprocket)

\* "(gear_ratio * wheel_circum * cadence * 60) / 1000" for a wheel size of
\* the catalogue, the products taken from left to right,
double_speed(gear_ratio, cadence) ==
    float_div(float_mul(float_mul(float_mul(gear_ratio,
                                            float_of_ratio(wheel_sizes[wheel_size_var],
                                                           1000)),
                                  float_of_int(cadence)),
                        float_of_int(60)),
              float_of_int(1000))

\* "speed * (1 - slope/100 * 0.1)",
double_adjusted_speed(speed, slope) ==
    float_mul(speed,
              float_sub(float_of_int(1),
                        float_mul(float_div(float_of_int(slope), float_of_int(100)),
                                  float_of_ratio(1, 10))))

\* and "abs(adjusted_speed - target_speed)".
double_diff(chainring, sprocket, target_speed, slope, cadence) ==
    float_abs(float_sub(double_adjusted_speed(
                            double_speed(double_gear_ratio(chainring, sprocket),
                                         cadence),
                            slope),
                        float_of_int(target_speed)))

(***************************************************************************)
(* Recommendation search of calculate_recommended_gear.                    *)
(***************************************************************************)
\* Mutant of candidate: crossing pairs are not skipped.
candidate_all(i, j, avoid_crossings) == TRUE

\* A pair takes part in the first pass unless is_chain_crossing flags it
\* ("continue"); the second pass takes every pair.
candidate(i, j, avoid_crossings) ==
    ~(avoid_crossings /\ is_chain_crossing(i, j).crossing)

\* The locals before the first loop: best_chainring = best_sprocket = None
\* (found = FALSE), min_diff = inf.  best_i and best_j are the loop indices
\* at the last assignment of best_chainring; the first loop does not store
\* them, the second does.
no_best ==
    [found |-> FALSE, error |-> FALSE, min_diff |-> Inf,
     best_chainring |-> 0, best_sprocket |-> 0, best_i |-> 0, best_j |-> 0]

\* "if diff < min_diff", a comparison of two doubles.  Two differences
\* that are not equal differ by more than the doubles are off, and the
\* doubles compare as the exact values do; of two equal differences the
\* doubles may differ in their last bits, and the comparison is theirs.
better(diff, min_diff, double_of_diff, double_of_min_diff) ==
    IF diff = min_diff THEN float_less(double_of_diff, double_of_min_diff)
    ELSE FracLess(diff, min_diff)

\* Mutant of update_best: best_sprocket is assigned the chainring.
update_best_slip(acc, chainring, sprocket, i, j, diff) ==
    [acc EXCEPT !.found = TRUE, !.min_diff = diff, !.best_chainring = chainring,
                !.best_sprocket = chainring, !.best_i = i, !.best_j = j]

\* min_diff = diff; best_chainring = chainring; best_sprocket = sprocket
update_best(acc, chainring, sprocket, i, j, diff) ==
    [acc EXCEPT !.found = TRUE, !.min_diff = diff, !.best_chainring = chainring,
                !.best_sprocket = sprocket, !.best_i = i, !.best_j = j]

\* The nested loops "for i, chainring ... for j, sprocket ...", from pair
\* number p = i * len(cassette_teeth) + j on.  A speed of None makes
\* "speed * (...)" raise a TypeError, which ends the handler.
RECURSIVE scan_pairs(_, _, _, _, _, _)
scan_pairs(p, acc, avoid_crossings, target_speed, slope, cadence) ==
    IF acc.error \/ p >= Len(crankset_teeth) * Len(cassette_teeth) THEN acc
    ELSE
        LET i == p \div Len(cassette_teeth)
            j == p % Len(cassette_teeth)
            chainring == crankset_teeth[i + 1]
            sprocket == cassette_teeth[j + 1]
            gear_ratio == calculate_gear_ratio(chainring, sprocket)
            speed == calculate_speed(gear_ratio, cadence)
            diff == speed_diff(adjusted_speed(speed, slope), target_speed)
        IN  IF ~candidate(i, j, avoid_crossings)
            THEN scan_pairs(p + 1, acc, avoid_crossings, target_speed, slope, cadence)
            ELSE IF speed = None
            THEN [acc EXCEPT !.error = TRUE]
            ELSE scan_pairs(p + 1,
                            IF better(diff, acc.min_diff,
                                      double_diff(chainring, sprocket,
                                                  target_speed, slope, cadence),
                                      double_diff(acc.best_chainring,
                                                  acc.best_sprocket,
                                                  target_speed, slope, cadence))
                            THEN update_best(acc, chainring, sprocket, i, j, diff)
                            ELSE acc,
                            avoid_crossings, target_speed, slope, cadence)

\* Mutant of fallback_crossing: the winner of the second pass is not checked.
fallback_crossing_unchecked(best_i, best_j) == NoCrossing

\* crossing, crossing_message = self.is_chain_crossing(best_i, best_j)
fallback_crossing(best_i, best_j) == is_chain_crossing(best_i, best_j)

\* What the results panel holds.  actual_speed, gear_ratio and development
\* are the values of the variables of those names, which the labels show
\* with one, two and two decimals; chainring_idx and sprocket_idx are the
\* positions shown (from 1).  status: "initial" (the panel as
\* setup_recom_tab builds it), "shown" (a recommendation), "empty" (cleared,
\* nothing shown: best_chainring or best_sprocket is 0), "error" (cleared,
\* and handle_errors reported an exception).  second_pass tells whether the
\* fallback loop ran.  widgets lists the children of the frame in the order
\* they were packed.
Panel(status, acc, second_pass, cross) ==
    [status |-> status,
     best_chainring |-> acc.best_chainring, best_sprocket |-> acc.best_sprocket,
     best_i |-> acc.best_i, best_j |-> acc.best_j,
     second_pass |-> second_pass,
     crossing |-> cross.crossing, crossing_message |-> cross.message,
     chainring_idx |-> 0, sprocket_idx |-> 0, actual_speed |-> None,
     gear_ratio |-> None, development |-> None,
     advice |-> "None", widgets |-> << >>]

InitialPanel ==
    [status |-> "initial", best_chainring |-> 0, best_sprocket |-> 0,
     best_i |-> 0, best_j |-> 0, second_pass |-> FALSE,
     crossing |-> FALSE, crossing_message |-> "None",
     chainring_idx |-> 0, sprocket_idx |-> 0,
     actual_speed |-> None,
     gear_ratio |-> None,
     development |-> None, advice |-> "None", widgets |-> << "prompt" >>]

ErrorPanel(second_pass) == Panel("error", no_best, second_pass, NoCrossing)

\* "if best_chainring and best_sprocket:" shows the recommendation.
show_recommendation(acc, second_pass, cross) ==
    IF acc.best_chainring # 0 /\ acc.best_sprocket # 0
    THEN Panel("shown", acc, second_pass, cross)
    ELSE Panel("empty", no_best, second_pass, NoCrossing)

\* Mutant of slope_advice: the steep-climb test is >= 8 instead of > 8.
slope_advice_from_8(slope) ==
    IF slope >= 8 THEN "steep"
    ELSE IF slope > 0 THEN "mild"
    ELSE IF slope < -5 THEN "descent"
    ELSE "flat"

\* "Tips according to slope": which of the four texts the panel ends with.
slope_advice(slope) ==
    IF slope > 8 THEN "steep"
    ELSE IF slope > 0 THEN "mild"
    ELSE IF slope < -5 THEN "descent"
    ELSE "flat"

\* The search of calculate_recommended_gear after the panel is cleared.
\* With no pair at all the second loop leaves best_i unbound and the call of
\* is_chain_crossing raises UnboundLocalError.
second_pass(second) ==
    IF second.error \/ ~second.found THEN ErrorPanel(TRUE)
    ELSE show_recommendation(second, TRUE,
                             fallback_crossing(second.best_i, second.best_j))

\* "if best_chainring is None:" after the first loop, which ran into first.
first_pass(first, target_speed, slope, cadence) ==
    IF first.error THEN ErrorPanel(FALSE)
    ELSE IF first.found THEN show_recommendation(first, FALSE, NoCrossing)
    ELSE second_pass(scan_pairs(0, [first EXCEPT !.min_diff = Inf], FALSE,
                                target_speed, slope, cadence))

recommended_pair(target_speed, slope, cadence) ==
    first_pass(scan_pairs(0, no_best, TRUE, target_speed, slope, cadence),
               target_speed, slope, cadence)

\* list.index(value) raises ValueError when the list does not hold the
\* value; handle_errors ends the handler there.
has_item(teeth_list, value) == \E x \in DOMAIN teeth_list : teeth_list[x] = value

\* list.index(value): the first position (from 0) that holds the value.
index_of(teeth_list, value) ==
    CHOOSE x \in 0..(Len(teeth_list) - 1) :
        /\ teeth_list[x + 1] = value
        /\ \A y \in 0..(x - 1) : teeth_list[y + 1] # value

\* "self.crankset_teeth.index(best_chainring) + 1": the position shown.
\* The index the search kept is not used.
index_shown(teeth_list, value, found_idx) == index_of(teeth_list, value) + 1

\* Mutant of actual_speed: the speed the search compared with the target.
actual_speed_adjusted(gear_ratio, cadence, slope) ==
    adjusted_speed(calculate_speed(gear_ratio, cadence), slope)

\* "actual_speed = self.calculate_speed(gear_ratio, cadence)": the slope
\* is not applied to the speed shown.
actual_speed(gear_ratio, cadence, slope) == calculate_speed(gear_ratio, cadence)

\* "development = gear_ratio * self.wheel_sizes[self.wheel_size_var.get()]"
development(gear_ratio) ==
    FracMul(gear_ratio, Frac(wheel_sizes[wheel_size_var], 1000))

\* The children a recommendation packs into the results frame: the title,
\* the positions, the frame of the details, the frame of the warning when
\* the pair crosses the chain, and the two labels of the tip.
packed_widgets(crossing) ==
    << "title", "positions", "details" >>
    \o (IF crossing THEN << "warning" >> ELSE << >>)
    \o << "tip", "advice" >>

\* The end of calculate_recommended_gear, after the search: under a
\* recommendation the positions, the technical details and the tip for the
\* slope are shown; an error panel stays as it is, and a ValueError of
\* list.index leaves an error under the title.
recommendation_details(panel, gear_ratio, slope, cadence) ==
    IF panel.status # "shown" THEN panel
    ELSE IF ~(has_item(crankset_teeth, panel.best_chainring)
              /\ has_item(cassette_teeth, panel.best_sprocket))
    THEN [ErrorPanel(panel.second_pass) EXCEPT !.widgets = << "title" >>]
    ELSE [panel EXCEPT
             !.widgets = packed_widgets(panel.crossing),
             !.chainring_idx = index_shown(crankset_teeth,
                                           panel.best_chainring, panel.best_i),
             !.sprocket_idx = index_shown(cassette_teeth,
                                          panel.best_sprocket, panel.best_j),
             !.actual_speed = actual_speed(gear_ratio, cadence, slope),
             !.gear_ratio = gear_ratio,
             !.development = development(gear_ratio),
             !.advice = slope_advice(slope)]

\* "gear_ratio = self.calculate_gear_ratio(best_chainring, best_sprocket)"
recommendation_of(panel, slope, cadence) ==
    recommendation_details(panel,
                           calculate_gear_ratio(panel.best_chainring,
                                                panel.best_sprocket),
                           slope, cadence)

\* The body of calculate_recommended_gear: the search, then what is shown.
recommended_gear(target_speed, slope, cadence) ==
    recommendation_of(recommended_pair(target_speed, slope, cadence),
                      slope, cadence)

(***************************************************************************)
(* Configuration: presets, manual entry.                                   *)
(***************************************************************************)
\* list.sort(): ascending, by insertion.
RECURSIVE Insert(_, _)
Insert(x, s) ==
    IF s = << >> THEN << x >>
    ELSE IF x <= Head(s) THEN << x >> \o s
    ELSE << Head(s) >> \o Insert(x, Tail(s))

RECURSIVE SortAsc(_)
SortAsc(s) == IF s = << >> THEN << >> ELSE Insert(Head(s), SortAsc(Tail(s)))

RECURSIVE Reverse(_)
Reverse(s) == IF s = << >> THEN << >> ELSE Reverse(Tail(s)) \o << Head(s) >>

\* list.sort(reverse=True)
SortDesc(s) == Reverse(SortAsc(s))

\* bike_types of setup_config_tab.
bike_types ==
    << [value |-> "mtb", chainrings |-> << 24, 34, 42 >>,
        sprockets |-> << 14, 16, 18, 20, 22, 24, 34 >>],
       [value |-> "road", chainrings |-> << 34, 50 >>,
        sprockets |-> << 14, 16, 18, 20, 22, 24, 28 >>],
       [value |-> "urban", chainrings |-> << 24, 34, 42 >>,
        sprockets |-> << 14, 16, 18, 20, 22, 24, 28 >>],
       [value |-> "custom", chainrings |-> << >>, sprockets |-> << >>] >>

\* Mutant of wheel_options: a size of the MTB list is written "27.5x2.1",
\* which the catalogue does not hold.
wheel_options_typo ==
    ("mtb" :> [default_size |-> "26x2.1",
               sizes |-> << "26x2.1", "26x2.35", "27.5x2.1", "27.5x2.25",
                            "29x2.1", "29x2.25", "29x2.3" >>]) @@
    ("road" :> [default_size |-> "700x25C",
                sizes |-> << "700x23C", "700x25C", "700x28C", "700C" >>]) @@
    ("urban" :> [default_size |-> "700x35C",
                 sizes |-> << "700x35C", "700x38C", "700x40C", "26x1.75" >>])

\* wheel_options of select_bike_type: (default size, sizes offered).
wheel_options ==
    ("mtb" :> [default_size |-> "26x2.1",
               sizes |-> << "26x2.1", "26x2.35", "27.5x2.10", "27.5x2.25",
                            "29x2.1", "29x2.25", "29x2.3" >>]) @@
    ("road" :> [default_size |-> "700x25C",
                sizes |-> << "700x23C", "700x25C", "700x28C", "700C" >>]) @@
    ("urban" :> [default_size |-> "700x35C",
                 sizes |-> << "700x35C", "700x38C", "700x40C", "26x1.75" >>])

\* list(wheel_sizes.keys()), as a set: the sizes offered for "custom".
all_wheel_sizes == DOMAIN wheel_sizes

\* Mutant of select_bike_type: the two lists are sorted in place (no
\* .copy()), so the catalogue entry is sorted as well.
select_bike_type_nocopy(bike_type) ==
    /\ bike_type_var' = bike_type.value
    /\ presets' =
           [b \in DOMAIN presets |->
               IF presets[b].value = bike_type.value
               THEN [presets[b] EXCEPT !.chainrings = SortDesc(@),
                                       !.sprockets = SortAsc(@)]
               ELSE presets[b]]
    /\ IF bike_type.value = "custom"
       THEN /\ crankset_teeth' = << >>
            /\ cassette_teeth' = << >>
            /\ manual_config_button' = "normal"
            /\ wheel_combo_values' = all_wheel_sizes
            /\ wheel_size_var' = "700C"
       ELSE /\ crankset_teeth' = SortDesc(bike_type.chainrings)
            /\ cassette_teeth' = SortAsc(bike_type.sprockets)
            /\ manual_config_button' = "disabled"
            /\ wheel_combo_values' =
                   {wheel_options[bike_type.value].sizes[x] :
                        x \in DOMAIN wheel_options[bike_type.value].sizes}
            /\ wheel_size_var' = wheel_options[bike_type.value].default_size
    /\ UNCHANGED << cadencia_var, target_speed_var, slope_var, results_frame,
                    crossing_check, technical_mode, visual_tab, tech_tab,
                    validation_check, ratio_check >>

\* Mutant of select_bike_type: the else branch that disables the manual
\* configuration button is missing.
select_bike_type_no_disable(bike_type) ==
    /\ bike_type_var' = bike_type.value
    /\ IF bike_type.value = "custom"
       THEN /\ crankset_teeth' = << >>
            /\ cassette_teeth' = << >>
            /\ manual_config_button' = "normal"
            /\ wheel_combo_values' = all_wheel_sizes
            /\ wheel_size_var' = "700C"
       ELSE /\ crankset_teeth' = SortDesc(bike_type.chainrings)
            /\ cassette_teeth' = SortAsc(bike_type.sprockets)
            /\ manual_config_button' = manual_config_button
            /\ wheel_combo_values' =
                   {wheel_options[bike_type.value].sizes[x] :
                        x \in DOMAIN wheel_options[bike_type.value].sizes}
            /\ wheel_size_var' = wheel_options[bike_type.value].default_size
    /\ UNCHANGED << cadencia_var, target_speed_var, slope_var, results_frame,
                    crossing_check,
                    presets, technical_mode, visual_tab, tech_tab,
                    validation_check, ratio_check >>

\* The handler of a bike-type radio button (the button sets bike_type_var).
select_bike_type(bike_type) ==
    /\ bike_type_var' = bike_type.value
    /\ IF bike_type.value = "custom"
       THEN /\ crankset_teeth' = << >>
            /\ cassette_teeth' = << >>
            /\ manual_config_button' = "normal"
            /\ wheel_combo_values' = all_wheel_sizes
            /\ wheel_size_var' = "700C"
       ELSE /\ crankset_teeth' = SortDesc(bike_type.chainrings)
            /\ cassette_teeth' = SortAsc(bike_type.sprockets)
            /\ manual_config_button' = "disabled"
            /\ wheel_combo_values' =
                   {wheel_options[bike_type.value].sizes[x] :
                        x \in DOMAIN wheel_options[bike_type.value].sizes}
            /\ wheel_size_var' = wheel_options[bike_type.value].default_size
    /\ UNCHANGED << cadencia_var, target_speed_var, slope_var, results_frame,
                    crossing_check,
                    presets, technical_mode, visual_tab, tech_tab,
                    validation_check, ratio_check >>

\* int(x.strip()) on the entries the model types; any other entry raises
\* ValueError.
int_of ==
    ("24" :> 24) @@ (" 34" :> 34) @@ ("42" :> 42) @@
    ("12" :> 12) @@ ("28 " :> 28) @@ ("0" :> 0) @@ ("60" :> 60)

is_int(x) == x \in DOMAIN int_of

parse_teeth(text) == [x \in DOMAIN text |-> int_of[text[x]]]

all_int(text) == \A x \in DOMAIN text : is_int(text[x])

\* save_custom_gears: the two entries are given split at the commas; an
\* entry that is empty after strip() is << >>.  A ValueError (int() of a
\* bad item, or a list left empty) ends the handler where it is raised,
\* with the window left open.
save_custom_gears(platos_text, pinones_text) ==
    /\ manual_config_button = "normal"
    /\ IF ~all_int(platos_text)
       THEN UNCHANGED << crankset_teeth, cassette_teeth >>
       ELSE IF ~all_int(pinones_text)
       THEN /\ crankset_teeth' = parse_teeth(platos_text)
            /\ UNCHANGED cassette_teeth
       ELSE IF platos_text = << >> \/ pinones_text = << >>
       THEN /\ crankset_teeth' = parse_teeth(platos_text)
            /\ cassette_teeth' = parse_teeth(pinones_text)
       ELSE /\ crankset_teeth' = SortDesc(parse_teeth(platos_text))
            /\ cassette_teeth' = SortAsc(parse_teeth(pinones_text))
    /\ UNCHANGED << wheel_size_var, wheel_combo_values, bike_type_var,
                    manual_config_button, cadencia_var, target_speed_var,
                    slope_var, results_frame, crossing_check,
                    presets, technical_mode, visual_tab, tech_tab,
                    validation_check, ratio_check >>

(***************************************************************************)
(* Sliders and the wheel-size box.                                         *)
(***************************************************************************)
\* The positions the model moves the sliders to.
Cadences == {DEFAULT_CADENCE, MAX_CADENCE}

TargetSpeeds == {20, 40}

Slopes == {0, 20}

set_cadence(rpm) ==
    /\ cadencia_var' = rpm
    /\ UNCHANGED << crankset_teeth, cassette_teeth, wheel_size_var,
                    wheel_combo_values, bike_type_var, manual_config_button,
                    target_speed_var, slope_var, results_frame, crossing_check,
                    presets, technical_mode, visual_tab, tech_tab,
                    validation_check, ratio_check >>

set_target_speed(kmh) ==
    /\ target_speed_var' = kmh
    /\ UNCHANGED << crankset_teeth, cassette_teeth, wheel_size_var,
                    wheel_combo_values, bike_type_var, manual_config_button,
                    cadencia_var, slope_var, results_frame, crossing_check,
                    presets, technical_mode, visual_tab, tech_tab,
                    validation_check, ratio_check >>

set_slope(percent) ==
    /\ slope_var' = percent
    /\ UNCHANGED << crankset_teeth, cassette_teeth, wheel_size_var,
                    wheel_combo_values, bike_type_var, manual_config_button,
                    cadencia_var, target_speed_var, results_frame, crossing_check,
                    presets, technical_mode, visual_tab, tech_tab,
                    validation_check, ratio_check >>

\* The wheel-size box, an editable Combobox on wheel_size_var: the text is
\* picked from the list or typed, and nothing checks it.
select_wheel_size(size) ==
    /\ wheel_size_var' = size
    /\ UNCHANGED << crankset_teeth, cassette_teeth, wheel_combo_values,
                    bike_type_var, manual_config_button, cadencia_var,
                    target_speed_var, slope_var, results_frame, crossing_check,
                    presets, technical_mode, visual_tab, tech_tab,
                    validation_check, ratio_check >>

(***************************************************************************)
(* Handlers that compute.                                                  *)
(***************************************************************************)
\* Mutant of clear_results_panel: the children are not destroyed.
clear_results_panel_kept(frame) == frame.widgets

\* "for widget in self.results_frame.winfo_children(): widget.destroy()":
\* the children left in the frame.
clear_results_panel(frame) == << >>

\* The frame after the call: the children the clearing left, then those
\* the call packed.
fill_results_panel(left, panel) == [panel EXCEPT !.widgets = left \o panel.widgets]

\* calculate_recommended_gear: clears the results panel, then fills it.
calculate_recommended_gear ==
    /\ results_frame' =
           fill_results_panel(clear_results_panel(results_frame),
                              recommended_gear(target_speed_var, slope_var,
                                               cadencia_var))
    /\ UNCHANGED << crankset_teeth, cassette_teeth, wheel_size_var,
                    wheel_combo_values, bike_type_var, manual_config_button,
                    cadencia_var, target_speed_var, slope_var, crossing_check,
                    presets, technical_mode, visual_tab, tech_tab,
                    validation_check, ratio_check >>

NoCheck ==
    [called |-> FALSE, chainring_idx |-> 0, sprocket_idx |-> 0,
     crossing |-> FALSE, message |-> "None"]

\* One call of is_chain_crossing, its arguments and its result kept.
check_chain_crossing(chainring_idx, sprocket_idx) ==
    /\ crossing_check' =
           [called |-> TRUE, chainring_idx |-> chainring_idx,
            sprocket_idx |-> sprocket_idx,
            crossing |-> is_chain_crossing(chainring_idx, sprocket_idx).crossing,
            message |-> is_chain_crossing(chainring_idx, sprocket_idx).message]
    /\ UNCHANGED << crankset_teeth, cassette_teeth, wheel_size_var,
                    wheel_combo_values, bike_type_var, manual_config_button,
                    cadencia_var, target_speed_var, slope_var, results_frame,
                    presets, technical_mode, visual_tab, tech_tab,
                    validation_check, ratio_check >>

(***************************************************************************)
(* Validation of the configuration.                                        *)
(***************************************************************************)
\* "if not MIN_TEETH <= teeth <= MAX_TEETH: raise ValueError"; every item of
\* the two lists is an int, so the isinstance test never fails.
teeth_out_of_range(teeth) == ~(MIN_TEETH <= teeth /\ teeth <= MAX_TEETH)

\* The loop over crankset_teeth + cassette_teeth: TRUE when no item raises.
RECURSIVE all_teeth_valid(_)
all_teeth_valid(teeth_list) ==
    IF teeth_list = << >> THEN TRUE
    ELSE IF teeth_out_of_range(Head(teeth_list)) THEN FALSE
    ELSE all_teeth_valid(Tail(teeth_list))

\* Mutant of validate_gear_configuration: only the chainrings are looped
\* over.
validate_gear_configuration_chainrings ==
    IF crankset_teeth = << >> \/ cassette_teeth = << >>
    THEN [result |-> FALSE, message |-> "Insufficient data"]
    ELSE IF ~all_teeth_valid(crankset_teeth)
    THEN [result |-> FALSE, message |-> "Invalid configuration"]
    ELSE [result |-> TRUE, message |-> "None"]

\* validate_gear_configuration -> bool, with the title of the warning box it
\* shows.  It assigns nothing.
validate_gear_configuration ==
    IF crankset_teeth = << >> \/ cassette_teeth = << >>
    THEN [result |-> FALSE, message |-> "Insufficient data"]
    ELSE IF ~all_teeth_valid(crankset_teeth \o cassette_teeth)
    THEN [result |-> FALSE, message |-> "Invalid configuration"]
    ELSE [result |-> TRUE, message |-> "None"]

NoValidation == [called |-> FALSE, result |-> FALSE, message |-> "None"]

\* One call of validate_gear_configuration, its result kept.
check_gear_configuration ==
    /\ validation_check' =
           [called |-> TRUE, result |-> validate_gear_configuration.result,
            message |-> validate_gear_configuration.message]
    /\ UNCHANGED << crankset_teeth, cassette_teeth, wheel_size_var,
                    wheel_combo_values, bike_type_var, manual_config_button,
                    cadencia_var, target_speed_var, slope_var, results_frame,
                    crossing_check, presets, technical_mode, visual_tab,
                    tech_tab, ratio_check >>

NoRatio ==
    [called |-> FALSE, chainring |-> 0, sprocket |-> 0, raised |-> FALSE,
     value |-> None]

\* One call of calculate_gear_ratio as a caller makes it (through the
\* decorator): its arguments, whether an exception came out, and the value.
check_gear_ratio(chainring, sprocket) ==
    /\ ratio_check' =
           [called |-> TRUE, chainring |-> chainring, sprocket |-> sprocket,
            raised |-> handle_errors(gear_ratio_body(chainring, sprocket)).raised,
            value |-> calculate_gear_ratio(chainring, sprocket)]
    /\ UNCHANGED << crankset_teeth, cassette_teeth, wheel_size_var,
                    wheel_combo_values, bike_type_var, manual_config_button,
                    cadencia_var, target_speed_var, slope_var, results_frame,
                    crossing_check, presets, technical_mode, visual_tab,
                    tech_tab, validation_check >>

(***************************************************************************)
(* The gear table of the visualization tab (create_gear_table).            *)
(***************************************************************************)
\* Mutant of gear_cell: only the crossings of the first chainring are
\* marked.
gear_cell_first(i, j, cadence) ==
    LET gear_ratio == calculate_gear_ratio(crankset_teeth[i + 1], cassette_teeth[j + 1])
        speed == calculate_speed(gear_ratio, cadence)
    IN  IF i = 0 /\ is_chain_crossing(i, j).crossing
        THEN [shown |-> FALSE, speed |-> None]
        ELSE [shown |-> TRUE, speed |-> speed]

\* One cell: "---" (shown = FALSE) when is_chain_crossing flags the pair,
\* else the speed, which the cell shows with one decimal.  The value is
\* kept, not its decimal text: where the exact speed lies midway between
\* two tenths the float of the program lies on either side.
gear_cell(i, j, cadence) ==
    LET gear_ratio == calculate_gear_ratio(crankset_teeth[i + 1], cassette_teeth[j + 1])
        speed == calculate_speed(gear_ratio, cadence)
    IN  IF is_chain_crossing(i, j).crossing
        THEN [shown |-> FALSE, speed |-> None]
        ELSE [shown |-> TRUE, speed |-> speed]

\* The visualization tab before visualize_bike has filled it.
InitialVisualTab ==
    [status |-> "empty", rows |-> << >>, crossing_count |-> 0,
     total_combinations |-> 0]

\* create_gear_table, with handle_errors around it: one row per chainring,
\* one cell per sprocket, and the two numbers of the warning under the
\* table.  Formatting a speed of None raises TypeError, the legend's lookup
\* of a wheel size that is no key of wheel_sizes raises KeyError, and the
\* table stays unfinished: tree.insert has run for the rows before the one
\* whose cell could not be formatted (for all rows when the legend fails),
\* and those rows stay in the table; the warning with the two numbers is
\* not built.
create_gear_table(cadence) ==
    LET chainring_idxs == 0..(Len(crankset_teeth) - 1)
        sprocket_idxs == 0..(Len(cassette_teeth) - 1)
        unformattable(i, j) ==
            /\ ~is_chain_crossing(i, j).crossing
            /\ calculate_speed(calculate_gear_ratio(crankset_teeth[i + 1],
                                                    cassette_teeth[j + 1]),
                               cadence) = None
        unfinished == {i \in chainring_idxs :
                          \E j \in sprocket_idxs : unformattable(i, j)}
        inserted == IF unfinished = {} THEN Len(crankset_teeth)
                    ELSE CHOOSE i \in unfinished : \A k \in unfinished : i <= k
        rows_inserted(n) == [r \in 1..n |->
                                [c \in 1..Len(cassette_teeth) |->
                                    gear_cell(r - 1, c - 1, cadence)]]
    IN  IF \/ unfinished # {}
           \/ wheel_size_var \notin DOMAIN wheel_sizes
        THEN [status |-> "error", rows |-> rows_inserted(inserted),
              crossing_count |-> 0, total_combinations |-> 0]
        ELSE [status |-> "shown",
              rows |-> rows_inserted(Len(crankset_teeth)),
              crossing_count |->
                  Cardinality({p \in chainring_idxs \X sprocket_idxs :
                                  is_chain_crossing(p[1], p[2]).crossing}),
              total_combinations |-> Len(crankset_teeth) * Len(cassette_teeth)]

(***************************************************************************)
(* The overlap analysis of the technical tab.                              *)
(***************************************************************************)
FracSub(x, y) == Frac(x.num * y.den - y.num * x.den, x.den * y.den)

\* x / y for y > 0.
FracDiv(x, y) == Frac(x.num * y.den, x.den * y.num)

FracMin(x, y) == IF FracLess(y, x) THEN y ELSE x

FracMax(x, y) == IF FracLess(x, y) THEN y ELSE x

\* min(ratios) and max(ratios) of a non-empty list.
RECURSIVE min_ratio(_)
min_ratio(ratios) ==
    IF Len(ratios) = 1 THEN ratios[1]
    ELSE FracMin(Head(ratios), min_ratio(Tail(ratios)))

RECURSIVE max_ratio(_)
max_ratio(ratios) ==
    IF Len(ratios) = 1 THEN ratios[1]
    ELSE FracMax(Head(ratios), max_ratio(Tail(ratios)))

\* setup_overlap_tab: all_ratios[i][j] and crosses[i][j], one list per
\* chainring (indices from 1 here).
all_ratios ==
    [i \in 1..Len(crankset_teeth) |->
        [j \in 1..Len(cassette_teeth) |->
            calculate_gear_ratio(crankset_teeth[i], cassette_teeth[j])]]

crosses ==
    [i \in 1..Len(crankset_teeth) |->
        [j \in 1..Len(cassette_teeth) |-> is_chain_crossing(i - 1, j - 1).crossing]]

\* [ratios[j] for j in range(len(ratios)) if not cross_positions[j]]
RECURSIVE filter_ratios(_, _)
filter_ratios(ratios, cross_positions) ==
    IF ratios = << >> THEN << >>
    ELSE IF Head(cross_positions)
    THEN filter_ratios(Tail(ratios), Tail(cross_positions))
    ELSE << Head(ratios) >> \o filter_ratios(Tail(ratios), Tail(cross_positions))

\* Mutant of ratio_ranges: the crossing information is not used.
ratio_ranges_all(i) ==
    LET ratios1 == all_ratios[i + 1]
        ratios2 == all_ratios[i + 2]
    IN  [crossings |-> "including",
         min_ratio1 |-> min_ratio(ratios1), max_ratio1 |-> max_ratio(ratios1),
         min_ratio2 |-> min_ratio(ratios2), max_ratio2 |-> max_ratio(ratios2)]

\* The ratio ranges of the adjacent chainrings i and i + 1 (i from 0): of
\* the ratios that cross no chain when both chainrings have one, else of all
\* ratios.  crosses is never empty here, so the branch without crossing
\* information is not taken.
ratio_ranges_of(ratios1, ratios2, filtered_ratios1, filtered_ratios2) ==
    IF filtered_ratios1 # << >> /\ filtered_ratios2 # << >>
    THEN [crossings |-> "without",
          min_ratio1 |-> min_ratio(filtered_ratios1),
          max_ratio1 |-> max_ratio(filtered_ratios1),
          min_ratio2 |-> min_ratio(filtered_ratios2),
          max_ratio2 |-> max_ratio(filtered_ratios2)]
    ELSE [crossings |-> "including",
          min_ratio1 |-> min_ratio(ratios1), max_ratio1 |-> max_ratio(ratios1),
          min_ratio2 |-> min_ratio(ratios2), max_ratio2 |-> max_ratio(ratios2)]

ratio_ranges(i) ==
    ratio_ranges_of(all_ratios[i + 1], all_ratios[i + 2],
                    filter_ratios(all_ratios[i + 1], crosses[i + 1]),
                    filter_ratios(all_ratios[i + 2], crosses[i + 2]))

\* overlap_pct = (overlap_end - overlap_start) / (max_ratio1 - min_ratio1) * 100
\* A range of width 0 raises ZeroDivisionError.
overlap_pct(overlap_start, overlap_end, r) ==
    IF r.max_ratio1 = r.min_ratio1 THEN [raised |-> TRUE, value |-> None]
    ELSE [raised |-> FALSE,
          value |-> FracMul(FracDiv(FracSub(overlap_end, overlap_start),
                                    FracSub(r.max_ratio1, r.min_ratio1)),
                            Frac(100, 1))]

\* The double of a ratio chainring / sprocket kept as a fraction.
double_of(x) == float_of_ratio(x.num, x.den)

\* The double that "(overlap_end - overlap_start) / (max_ratio1 -
\* min_ratio1) * 100" gives.
double_overlap_pct(overlap_start, overlap_end, r) ==
    float_mul(float_div(float_sub(double_of(overlap_end), double_of(overlap_start)),
                        float_sub(double_of(r.max_ratio1), double_of(r.min_ratio1))),
              float_of_int(100))

\* "x < n" for a double x and an int n.  A value off n is further from it
\* than its double is off, and the double compares as the exact value does;
\* of a value that is exactly n the double may lie below n, and the
\* comparison is the double's.
below(x, n, double_of_x) ==
    IF x = Frac(n, 1) THEN float_less(double_of_x, float_of_int(n))
    ELSE FracLess(x, Frac(n, 1))

\* "if overlap_pct < 10 ... elif overlap_pct < 30 ... else"
overlap_evaluation(pct, double_of_pct) ==
    IF below(pct, 10, double_of_pct) THEN "low"
    ELSE IF below(pct, 30, double_of_pct) THEN "moderate"
    ELSE "high"

\* One turn of the loop over the adjacent chainrings: what the text says
\* about the chainrings i and i + 1, and whether the turn raised.
overlap_text(i, r, overlap_start, overlap_end, pct) ==
    IF ~FracLess(overlap_end, overlap_start)
    THEN [chainring1 |-> crankset_teeth[i + 1],
          chainring2 |-> crankset_teeth[i + 2],
          crossings |-> r.crossings, overlap |-> TRUE, raised |-> pct.raised,
          overlap_start |-> overlap_start, overlap_end |-> overlap_end,
          overlap_pct |-> pct.value,
          evaluation |-> IF pct.raised THEN "None"
                         ELSE overlap_evaluation(
                                  pct.value,
                                  double_overlap_pct(overlap_start,
                                                     overlap_end, r))]
    ELSE [chainring1 |-> crankset_teeth[i + 1],
          chainring2 |-> crankset_teeth[i + 2],
          crossings |-> r.crossings, overlap |-> FALSE, raised |-> FALSE,
          overlap_start |-> None, overlap_end |-> None,
          overlap_pct |-> None, evaluation |-> "None"]

\* overlap_start = max(min_ratio1, min_ratio2);
\* overlap_end = min(max_ratio1, max_ratio2), and the percentage of them
overlap_of_ends(i, r, overlap_start, overlap_end) ==
    overlap_text(i, r, overlap_start, overlap_end,
                 overlap_pct(overlap_start, overlap_end, r))

overlap_of_ranges(i, r) ==
    overlap_of_ends(i, r, FracMax(r.min_ratio1, r.min_ratio2),
                    FracMin(r.max_ratio1, r.max_ratio2))

overlap_pair(i) == overlap_of_ranges(i, ratio_ranges(i))

RECURSIVE flatten(_)
flatten(lists) ==
    IF lists = << >> THEN << >> ELSE Head(lists) \o flatten(Tail(lists))

\* The double that "max_ratio / min_ratio" gives.
double_range_ratio(ratios) ==
    float_div(double_of(max_ratio(ratios)), double_of(min_ratio(ratios)))

\* "if range_ratio < 3 ... elif range_ratio < 5 ... else"
range_evaluation(range_ratio, double_of_range) ==
    IF below(range_ratio, 3, double_of_range) THEN "limited"
    ELSE IF below(range_ratio, 5, double_of_range) THEN "moderate"
    ELSE "wide"

\* What calculate_overlap_analysis returns when it raised: handle_errors
\* turns the exception into None, and no analysis is shown.
NoOverlapText ==
    [status |-> "none", pairs |-> << >>, range_without |-> None,
     range_all |-> None, range_evaluation |-> "None"]

\* calculate_overlap_analysis(all_ratios, crosses), with handle_errors
\* around it.  status: "too_few" (at most one chainring), "text" (the
\* analysis), "none" (an exception: a division by zero, or a ratio of None
\* given to min()).
overlap_analysis_of(pairs, all_filtered_ratios, all_ratios_flat) ==
        IF Len(all_ratios) <= 1
        THEN [status |-> "too_few", pairs |-> << >>, range_without |-> None,
              range_all |-> None, range_evaluation |-> "None"]
        ELSE IF \/ \E x \in DOMAIN all_ratios_flat : all_ratios_flat[x] = None
                \/ all_ratios_flat = << >>
        THEN NoOverlapText
        ELSE IF \/ \E x \in DOMAIN pairs : pairs[x].raised
                \/ min_ratio(all_ratios_flat).num = 0
        THEN NoOverlapText
        ELSE [status |-> "text",
              pairs |-> pairs,
              range_without |->
                  IF all_filtered_ratios = << >> THEN None
                  ELSE FracDiv(max_ratio(all_filtered_ratios),
                               min_ratio(all_filtered_ratios)),
              range_all |-> FracDiv(max_ratio(all_ratios_flat),
                                    min_ratio(all_ratios_flat)),
              range_evaluation |->
                  range_evaluation(FracDiv(max_ratio(all_ratios_flat),
                                           min_ratio(all_ratios_flat)),
                                   double_range_ratio(all_ratios_flat))]

calculate_overlap_analysis ==
    overlap_analysis_of(
        [x \in 1..(Len(all_ratios) - 1) |-> overlap_pair(x - 1)],
        flatten([i \in 1..Len(all_ratios) |->
                    filter_ratios(all_ratios[i], crosses[i])]),
        flatten(all_ratios))

(***************************************************************************)
(* The handlers that rebuild tabs.                                         *)
(***************************************************************************)
\* setup_tech_tab: a notice when a teeth list is empty; else the tabs of
\* the technical notebook, of which the overlap tab holds the text of
\* calculate_overlap_analysis (the two charts hold no text).
setup_tech_tab ==
    IF crankset_teeth = << >> \/ cassette_teeth = << >>
    THEN [status |-> "notice", overlap_text |-> NoOverlapText]
    ELSE [status |-> "built", overlap_text |-> calculate_overlap_analysis]

\* visualize_bike, for either value of the mode switch: nothing but a
\* warning box when validate_gear_configuration fails; else the gear table
\* (the two charts draw the same ratios and speeds), the recommendation tab
\* built anew by setup_recom_tab (sliders back at 20 km/h and 0 %, panel
\* empty) and, in technical mode, the technical tab built anew.
visualize_bike_tabs(technical) ==
    IF ~validate_gear_configuration.result
    THEN UNCHANGED << visual_tab, target_speed_var, slope_var, results_frame,
                      tech_tab >>
    ELSE /\ visual_tab' = create_gear_table(cadencia_var)
         /\ target_speed_var' = 20
         /\ slope_var' = 0
         /\ results_frame' = InitialPanel
         /\ tech_tab' = IF technical THEN setup_tech_tab ELSE tech_tab

\* The button "Visualize".
visualize_bike ==
    /\ visualize_bike_tabs(technical_mode)
    /\ UNCHANGED << crankset_teeth, cassette_teeth, wheel_size_var,
                    wheel_combo_values, bike_type_var, manual_config_button,
                    cadencia_var, crossing_check, presets, technical_mode,
                    validation_check, ratio_check >>

\* update_tech_tab: the technical tab built anew if the configuration is
\* valid.
update_tech_tab ==
    /\ tech_tab' = IF validate_gear_configuration.result THEN setup_tech_tab
                   ELSE tech_tab
    /\ UNCHANGED << crankset_teeth, cassette_teeth, wheel_size_var,
                    wheel_combo_values, bike_type_var, manual_config_button,
                    cadencia_var, target_speed_var, slope_var, results_frame,
                    crossing_check, presets, technical_mode, visual_tab,
                    validation_check, ratio_check >>

\* change_mode, after a mode radio button set technical_mode: in technical
\* mode with both lists filled, visualize_bike and then update_tech_tab,
\* which builds the technical tab a second time from the same lists.
change_mode(technical) ==
    /\ technical_mode' = technical
    /\ IF technical /\ crankset_teeth # << >> /\ cassette_teeth # << >>
       THEN visualize_bike_tabs(TRUE)
       ELSE UNCHANGED << visual_tab, target_speed_var, slope_var, results_frame,
                         tech_tab >>
    /\ UNCHANGED << crankset_teeth, cassette_teeth, wheel_size_var,
                    wheel_combo_values, bike_type_var, manual_config_button,
                    cadencia_var, crossing_check, presets, validation_check,
                    ratio_check >>

\* The technical tab as __init__ leaves it: setup_tech_tab ran on the MTB
\* preset.
InitialTechTab ==
    [status |-> "built",
     overlap_text |->
         [status |-> "text",
          pairs |->
              << [chainring1 |-> 42, chainring2 |-> 34, crossings |-> "without",
                  overlap |-> TRUE, raised |-> FALSE,
                  overlap_start |-> [num |-> 21, den |-> 10],
                  overlap_end |-> [num |-> 17, den |-> 8],
                  overlap_pct |-> [num |-> 25, den |-> 9],
                  evaluation |-> "low"],
                 [chainring1 |-> 34, chainring2 |-> 24, crossings |-> "without",
                  overlap |-> FALSE, raised |-> FALSE,
                  overlap_start |-> [num |-> 0, den |-> 0],
                  overlap_end |-> [num |-> 0, den |-> 0],
                  overlap_pct |-> [num |-> 0, den |-> 0],
                  evaluation |-> "None"] >>,
          range_without |-> [num |-> 17, den |-> 4],
          range_all |-> [num |-> 17, den |-> 4],
          range_evaluation |-> "moderate"]]

(***************************************************************************)
(* The session: the state after NuSui.__init__ and the user's operations.  *)
(***************************************************************************)
\* What the model types into the two entries of the manual configuration,
\* split at the commas ("x" and "" are no integers).
PlatosTexts ==
    {<< >>, << "24", " 34" >>, << " 34", "x" >>}

PinonesTexts ==
    {<< >>, << "28 ", "12" >>, << "12", "" >>, << "60", "12" >>}

\* Texts the model puts in the wheel-size box: a size of the catalogue that
\* the lists of the MTB and urban types do not offer, and a text that is
\* no size.
WheelChoices == {"700C", "foo"}

\* __init__: setup_config_tab ends with select_bike_type(bike_types[0]),
\* then setup_recom_tab builds the sliders and the results panel.
Init ==
    /\ crankset_teeth = SortDesc(bike_types[1].chainrings)
    /\ cassette_teeth = SortAsc(bike_types[1].sprockets)
    /\ wheel_size_var = "26x2.1"
    /\ wheel_combo_values =
           {wheel_options["mtb"].sizes[x] : x \in DOMAIN wheel_options["mtb"].sizes}
    /\ bike_type_var = "mtb"
    /\ manual_config_button = "disabled"
    /\ cadencia_var = DEFAULT_CADENCE
    /\ target_speed_var = 20
    /\ slope_var = 0
    /\ results_frame = InitialPanel
    /\ crossing_check = NoCheck
    /\ presets = bike_types
    /\ technical_mode = FALSE
    /\ visual_tab = InitialVisualTab
    /\ tech_tab = InitialTechTab
    /\ validation_check = NoValidation
    /\ ratio_check = NoRatio

SelectBikeType == \E b \in DOMAIN presets : select_bike_type(presets[b])

SaveCustomGears ==
    \E platos_text \in PlatosTexts, pinones_text \in PinonesTexts :
        save_custom_gears(platos_text, pinones_text)

SetCadence == \E rpm \in Cadences : set_cadence(rpm)

SetTargetSpeed == \E kmh \in TargetSpeeds : set_target_speed(kmh)

SetSlope == \E percent \in Slopes : set_slope(percent)

SelectWheelSize == \E size \in WheelChoices : select_wheel_size(size)

CalculateRecommendedGear == calculate_recommended_gear

VisualizeBike == visualize_bike

ChangeMode == \E technical \in BOOLEAN : change_mode(technical)

Next ==
    \/ SelectBikeType
    \/ SaveCustomGears
    \/ SetCadence
    \/ SetTargetSpeed
    \/ SetSlope
    \/ SelectWheelSize
    \/ CalculateRecommendedGear
    \/ VisualizeBike
    \/ ChangeMode

Spec == Init /\ [][Next]_vars

(***************************************************************************)
(* The session without the sliders and the wheel-size box: the operations  *)
(* that set the configuration and the handlers that compute from it.       *)
(***************************************************************************)
NextHandlers ==
    \/ SelectBikeType
    \/ SaveCustomGears
    \/ CalculateRecommendedGear
    \/ VisualizeBike
    \/ ChangeMode

SpecHandlers == Init /\ [][NextHandlers]_vars

(***************************************************************************)
(* The classifier on its own: teeth lists of every length up to the        *)
(* bounds, and is_chain_crossing called with any pair of indices.          *)
(***************************************************************************)
MaxChainrings == 5

MaxSprockets == 15

\* Teeth the lists are cut from (chainrings descending, sprockets ascending).
ChainringPool == << 53, 50, 46, 42, 38, 34, 30, 26, 22 >>

SprocketPool ==
    << 11, 12, 13, 14, 15, 16, 17, 18, 19, 21, 23, 25, 28, 32, 36, 40, 45, 51 >>

InitClassifier ==
    /\ crankset_teeth \in {SubSeq(ChainringPool, 1, k) : k \in 0..MaxChainrings}
    /\ cassette_teeth \in {SubSeq(SprocketPool, 1, n) : n \in 0..MaxSprockets}
    /\ wheel_size_var = "700C"
    /\ wheel_combo_values = all_wheel_sizes
    /\ bike_type_var = "custom"
    /\ manual_config_button = "normal"
    /\ cadencia_var = DEFAULT_CADENCE
    /\ target_speed_var = 20
    /\ slope_var = 0
    /\ results_frame = InitialPanel
    /\ crossing_check = NoCheck
    /\ presets = bike_types
    /\ technical_mode = FALSE
    /\ visual_tab = InitialVisualTab
    /\ tech_tab = InitialTechTab
    /\ validation_check = NoValidation
    /\ ratio_check = NoRatio

CheckChainCrossing ==
    \E chainring_idx \in 0..MaxChainrings, sprocket_idx \in 0..MaxSprockets :
        check_chain_crossing(chainring_idx, sprocket_idx)

NextClassifier == CheckChainCrossing

SpecClassifier == InitClassifier /\ [][NextClassifier]_vars

(***************************************************************************)
(* The recommendation on its own: a configuration and a query, then        *)
(* calculate_recommended_gear, any number of times.                        *)
(***************************************************************************)
MaxRecomChainrings == 5

MaxRecomSprockets == 6

\* Teeth the configurations are cut from; 48/24 = 36/18 = 24/12 gives pairs
\* of equal ratio.
RecomChainringPool == << 48, 36, 24, 22, 20, 18 >>

RecomSprocketPool == << 12, 16, 18, 24, 30, 32, 36 >>

\* Every run of consecutive items of pool, up to max_len long.
Windows(pool, max_len) ==
    {SubSeq(pool, w[1], w[1] + w[2] - 1) :
        w \in {v \in (1..Len(pool)) \X (0..max_len) : v[1] + v[2] - 1 <= Len(pool)}}

\* Configurations a rejected save_custom_gears leaves, or a manual entry
\* with a tooth count typed twice, or with a sprocket of 0 teeth.
OddCranksets == {<< 24, 36 >>, << 36, 36 >>}

OddCassettes == {<< 18, 18, 24 >>, << 0, 12, 16 >>}

RecomWheels == {"26x2.1", "700x25C"}

\* One chainring and two sprockets on the wheel 700x19C (2.08 m): at 100
\* rpm the two speeds are 12 and 8 km/h on << 26, 39 >> with 25 teeth, and
\* 10.4 and 9.6 km/h on << 24, 26 >> with 20 teeth, equally far from 10.
TieCranksets == {<< 25 >>, << 20 >>}

TieCassettes == {<< 26, 39 >>, << 24, 26 >>}

TieWheel == "700x19C"

\* A text typed into the wheel-size box that is no key of wheel_sizes, with
\* teeth of the road and of the MTB preset.
TypedWheel == "foo"

TypedCranksets == {<< 50, 34 >>, << 42, 34, 24 >>}

TypedCassettes == {<< 14, 16, 18, 20, 22, 24, 28 >>}

RecomCadences == {MIN_CADENCE, MAX_CADENCE}

RecomTargetSpeeds == {10, 20, 40}

RecomSlopes == {-10, 0, 20}

InitRecom ==
    /\ \/ /\ crankset_teeth \in Windows(RecomChainringPool, MaxRecomChainrings)
                                  \cup OddCranksets
          /\ cassette_teeth \in Windows(RecomSprocketPool, MaxRecomSprockets)
                                  \cup OddCassettes
          /\ wheel_size_var \in RecomWheels
       \/ /\ crankset_teeth \in TieCranksets
          /\ cassette_teeth \in TieCassettes
          /\ wheel_size_var = TieWheel
       \/ /\ crankset_teeth \in TypedCranksets
          /\ cassette_teeth \in TypedCassettes
          /\ wheel_size_var = TypedWheel
    /\ wheel_combo_values = all_wheel_sizes
    /\ bike_type_var = "custom"
    /\ manual_config_button = "normal"
    /\ cadencia_var \in RecomCadences
    /\ target_speed_var \in RecomTargetSpeeds
    /\ slope_var \in RecomSlopes
    /\ results_frame = InitialPanel
    /\ crossing_check = NoCheck
    /\ presets = bike_types
    /\ technical_mode = FALSE
    /\ visual_tab = InitialVisualTab
    /\ tech_tab = InitialTechTab
    /\ validation_check = NoValidation
    /\ ratio_check = NoRatio

NextRecom == CalculateRecommendedGear

SpecRecom == InitRecom /\ [][NextRecom]_vars

(***************************************************************************)
(* validate_gear_configuration and calculate_gear_ratio on their own:      *)
(* teeth lists as manual entry can leave them, and the two methods called  *)
(* directly.                                                               *)
(***************************************************************************)
DirectCranksets ==
    {<< >>, << 11 >>, << 53 >>, << 10 >>, << 54 >>, << 53, 11 >>, << 34, 10 >>,
     << 54, 34 >>, << 24, 34 >>, << 0 >>}

DirectCassettes ==
    {<< >>, << 11 >>, << 53 >>, << 10 >>, << 54 >>, << 11, 53 >>, << 12, 60 >>,
     << 0, 12, 28 >>, << 12, 28 >>, << 28, 12, 54 >>}

\* Arguments of the direct calls of calculate_gear_ratio.
RatioChainrings == {11, 24, 34, 53}

RatioSprockets == {0, 11, 12, 17, 53}

InitDirect ==
    /\ crankset_teeth \in DirectCranksets
    /\ cassette_teeth \in DirectCassettes
    /\ wheel_size_var = "700C"
    /\ wheel_combo_values = all_wheel_sizes
    /\ bike_type_var = "custom"
    /\ manual_config_button = "normal"
    /\ cadencia_var = DEFAULT_CADENCE
    /\ target_speed_var = 20
    /\ slope_var = 0
    /\ results_frame = InitialPanel
    /\ crossing_check = NoCheck
    /\ presets = bike_types
    /\ technical_mode = FALSE
    /\ visual_tab = InitialVisualTab
    /\ tech_tab = InitialTechTab
    /\ validation_check = NoValidation
    /\ ratio_check = NoRatio

CheckGearConfiguration == check_gear_configuration

CheckGearRatio ==
    \E chainring \in RatioChainrings, sprocket \in RatioSprockets :
        check_gear_ratio(chainring, sprocket)

NextDirect ==
    \/ CheckGearConfiguration
    \/ CheckGearRatio

SpecDirect == InitDirect /\ [][NextDirect]_vars

(***************************************************************************)
(* The tip under a recommendation: a preset, every position of the slope   *)
(* slider, then calculate_recommended_gear.                                *)
(***************************************************************************)
\* The slope slider runs from -10 to 20 and stores int(float(s)).
MIN_SLOPE == -10

MAX_SLOPE == 20

AdviceTargetSpeeds == {10, 30}

InitAdvice ==
    /\ \E b \in 1..3 :
          /\ crankset_teeth = SortDesc(bike_types[b].chainrings)
          /\ cassette_teeth = SortAsc(bike_types[b].sprockets)
          /\ bike_type_var = bike_types[b].value
          /\ wheel_size_var = wheel_options[bike_types[b].value].default_size
          /\ wheel_combo_values =
                 {wheel_options[bike_types[b].value].sizes[x] :
                      x \in DOMAIN wheel_options[bike_types[b].value].sizes}
    /\ manual_config_button = "disabled"
    /\ cadencia_var = DEFAULT_CADENCE
    /\ target_speed_var \in AdviceTargetSpeeds
    /\ slope_var \in MIN_SLOPE..MAX_SLOPE
    /\ results_frame = InitialPanel
    /\ crossing_check = NoCheck
    /\ presets = bike_types
    /\ technical_mode = FALSE
    /\ visual_tab = InitialVisualTab
    /\ tech_tab = InitialTechTab
    /\ validation_check = NoValidation
    /\ ratio_check = NoRatio

NextAdvice == CalculateRecommendedGear

SpecAdvice == InitAdvice /\ [][NextAdvice]_vars

(***************************************************************************)
(* The technical tab on its own: a valid manual configuration, then the    *)
(* mode switch and the button "Visualize".                                 *)
(***************************************************************************)
MaxOverlapChainrings == 3

MaxOverlapSprockets == 5

\* Teeth the configurations are cut from, all within MIN_TEETH..MAX_TEETH.
OverlapChainringPool == << 50, 38, 34, 28, 24, 22 >>

OverlapSprocketPool == << 11, 13, 15, 17, 19, 22, 25, 28 >>

\* A crankset a rejected save_custom_gears left unsorted, and tooth counts
\* typed twice.
OddOverlapCranksets == {<< 24, 34 >>, << 34, 34 >>, << 34, 34, 24 >>}

OddOverlapCassettes == {<< 18, 18, 24 >>, << 16, 16 >>}

OverlapCranksets ==
    (Windows(OverlapChainringPool, MaxOverlapChainrings) \cup OddOverlapCranksets)
        \ {<< >>}

OverlapCassettes ==
    (Windows(OverlapSprocketPool, MaxOverlapSprockets) \cup OddOverlapCassettes)
        \ {<< >>}

\* Configurations whose overlap percentage is 10 (40, 22 on 12, 24 or
\* 13, 26 or 11, 22; 50, 40 on 11, 13, 16, 22, 25, 28) or 30 (36, 24 on
\* 11, 21), or whose total range is 3 (36, 24 on 13, 26; 33, 22 on 18, 36).
ThresholdCranksets == {<< 40, 22 >>, << 36, 24 >>, << 50, 40 >>, << 33, 22 >>}

ThresholdCassettes ==
    {<< 12, 24 >>, << 13, 26 >>, << 11, 21 >>, << 11, 22 >>, << 18, 36 >>,
     << 11, 13, 16, 22, 25, 28 >>}

InitOverlap ==
    /\ \/ /\ crankset_teeth \in OverlapCranksets
          /\ cassette_teeth \in OverlapCassettes
       \/ /\ crankset_teeth \in ThresholdCranksets
          /\ cassette_teeth \in ThresholdCassettes
    /\ wheel_size_var = "700C"
    /\ wheel_combo_values = all_wheel_sizes
    /\ bike_type_var = "custom"
    /\ manual_config_button = "normal"
    /\ cadencia_var = DEFAULT_CADENCE
    /\ target_speed_var = 20
    /\ slope_var = 0
    /\ results_frame = InitialPanel
    /\ crossing_check = NoCheck
    /\ presets = bike_types
    /\ technical_mode = FALSE
    /\ visual_tab = InitialVisualTab
    /\ tech_tab = InitialTechTab
    /\ validation_check = NoValidation
    /\ ratio_check = NoRatio

NextOverlap ==
    \/ ChangeMode
    \/ VisualizeBike

SpecOverlap == InitOverlap /\ [][NextOverlap]_vars

(***************************************************************************)
(* The recommendation over the whole range of the target-speed slider:     *)
(* InitTarget draws a configuration, a slope and a position of the slider, *)
(* and calculate_recommended_gear runs.                                    *)
(***************************************************************************)
\* The ends of the target-speed slider of setup_recom_tab.
MIN_TARGET_SPEED == 5

MAX_TARGET_SPEED == 50

MaxTargetChainrings == 3

MaxTargetSprockets == 4

\* Teeth the configurations are cut from.
TargetChainringPool == << 48, 36, 24, 22 >>

TargetSprocketPool == << 12, 16, 18, 24, 32 >>

TargetSlopes == {MIN_SLOPE, 0, MAX_SLOPE}

InitTarget ==
    /\ crankset_teeth \in
           (Windows(TargetChainringPool, MaxTargetChainrings) \cup OddCranksets)
               \ {<< >>}
    /\ cassette_teeth \in
           (Windows(TargetSprocketPool, MaxTargetSprockets) \cup {<< 18, 18, 24 >>})
               \ {<< >>}
    /\ wheel_size_var = "700C"
    /\ wheel_combo_values = all_wheel_sizes
    /\ bike_type_var = "custom"
    /\ manual_config_button = "normal"
    /\ cadencia_var = DEFAULT_CADENCE
    /\ target_speed_var \in MIN_TARGET_SPEED..MAX_TARGET_SPEED
    /\ slope_var \in TargetSlopes
    /\ results_frame = InitialPanel
    /\ crossing_check = NoCheck
    /\ presets = bike_types
    /\ technical_mode = FALSE
    /\ visual_tab = InitialVisualTab
    /\ tech_tab = InitialTechTab
    /\ validation_check = NoValidation
    /\ ratio_check = NoRatio

NextTarget == CalculateRecommendedGear

SpecTarget == InitTarget /\ [][NextTarget]_vars

(***************************************************************************)
(* Properties of the classifier (checked under SpecClassifier).            *)
(***************************************************************************)
\* The integer nearest to num/den >= 0, the even one of two equally near:
\* round() stated by its defining property.
NearestEven(num, den) ==
    CHOOSE r \in 0..(num + 1) :
        /\ 2 * Abs(r * den - num) <= den
        /\ (2 * Abs(r * den - num) = den => r % 2 = 0)

\* C7: with zero or one chainring is_chain_crossing returns (False, None)
\* for every chainring index and every sprocket index, whatever the number
\* of sprockets.
C7_SingleChainringNeverCrosses ==
    (crossing_check.called /\ Len(crankset_teeth) <= 1)
        => (~crossing_check.crossing /\ crossing_check.message = "None")

\* One chainring, ten sprockets, asked about the largest sprocket.
C7_Witness ==
    /\ crossing_check.called
    /\ Len(crankset_teeth) = 1
    /\ Len(cassette_teeth) = 10
    /\ crossing_check.chainring_idx = 0
    /\ crossing_check.sprocket_idx = 9
    /\ ~crossing_check.crossing

\* C8: with exactly two chainrings and n sprockets the result is true
\* exactly when (c = 0 and j >= n - e) or (c = 1 and j < e), with
\* e = max(2, round(n * 0.35)); with 10 sprockets chainring 0 crosses
\* exactly the sprocket indices 6..9 and chainring 1 exactly 0..3.
C8_DoubleChainringRule ==
    (crossing_check.called /\ Len(crankset_teeth) = 2) =>
        LET n == Len(cassette_teeth)
            c == crossing_check.chainring_idx
            j == crossing_check.sprocket_idx
            e == Max(2, NearestEven(n * 35, 100))
        IN  /\ crossing_check.crossing <=>
                   ((c = 0 /\ j >= n - e) \/ (c = 1 /\ j < e))
            /\ (n = 10 /\ j < n /\ c = 0) => (crossing_check.crossing <=> j \in 6..9)
            /\ (n = 10 /\ j < n /\ c = 1) => (crossing_check.crossing <=> j \in 0..3)

\* Two chainrings, ten sprockets: the large chainring on sprocket index 6.
C8_Witness ==
    /\ crossing_check.called
    /\ Len(crankset_teeth) = 2
    /\ Len(cassette_teeth) = 10
    /\ crossing_check.chainring_idx = 0
    /\ crossing_check.sprocket_idx = 6
    /\ crossing_check.crossing

\* C9: with exactly three chainrings and n sprockets the result is true
\* exactly when (c = 0 and j >= n - E) or (c = 2 and j < E) or
\* (c = 1 and (j >= n - M or j < M)), with E = max(2, round(n * 0.4)) and
\* M = max(1, round(n * 0.15)); with 7 sprockets chainring 0 crosses exactly
\* the indices 4, 5, 6 and the middle chainring exactly 0 and 6.
C9_TripleChainringRule ==
    (crossing_check.called /\ Len(crankset_teeth) = 3) =>
        LET n == Len(cassette_teeth)
            c == crossing_check.chainring_idx
            j == crossing_check.sprocket_idx
            E == Max(2, NearestEven(n * 40, 100))
            M == Max(1, NearestEven(n * 15, 100))
        IN  /\ crossing_check.crossing <=>
                   \/ (c = 0 /\ j >= n - E)
                   \/ (c = 2 /\ j < E)
                   \/ (c = 1 /\ (j >= n - M \/ j < M))
            /\ (n = 7 /\ j < n /\ c = 0) => (crossing_check.crossing <=> j \in {4, 5, 6})
            /\ (n = 7 /\ j < n /\ c = 1) => (crossing_check.crossing <=> j \in {0, 6})

\* Three chainrings, seven sprockets: the middle chainring on the smallest
\* sprocket.
C9_Witness ==
    /\ crossing_check.called
    /\ Len(crankset_teeth) = 3
    /\ Len(cassette_teeth) = 7
    /\ crossing_check.chainring_idx = 1
    /\ crossing_check.sprocket_idx = 0
    /\ crossing_check.crossing

\* C10: with k >= 4 chainrings and n sprockets the result is true exactly
\* when (c = 0 and j >= n - e) or (c = k-1 and j < e) or
\* (0 < c < k-1 and (j = 0 or j >= n - 1)), with e = max(1, round(n * 0.3)).
C10_GeneralRule ==
    (crossing_check.called /\ Len(crankset_teeth) >= 4) =>
        LET k == Len(crankset_teeth)
            n == Len(cassette_teeth)
            c == crossing_check.chainring_idx
            j == crossing_check.sprocket_idx
            e == Max(1, NearestEven(n * 30, 100))
        IN  crossing_check.crossing <=>
                \/ (c = 0 /\ j >= n - e)
                \/ (c = k - 1 /\ j < e)
                \/ (0 < c /\ c < k - 1 /\ (j = 0 \/ j >= n - 1))

\* Five chainrings, fifteen sprockets (n * 0.3 = 4.5 rounds to 4): an
\* intermediate chainring on the largest sprocket.
C10_Witness ==
    /\ crossing_check.called
    /\ Len(crankset_teeth) = 5
    /\ Len(cassette_teeth) = 15
    /\ crossing_check.chainring_idx = 2
    /\ crossing_check.sprocket_idx = 14
    /\ crossing_check.crossing

(***************************************************************************)
(* Properties of the recommendation (checked under SpecRecom).             *)
(***************************************************************************)
\* The pairs (chainring index, sprocket index) of the configuration, and
\* those is_chain_crossing does not flag.
Pairs == (0..(Len(crankset_teeth) - 1)) \X (0..(Len(cassette_teeth) - 1))

NonCrossingPairs == {p \in Pairs : ~is_chain_crossing(p[1], p[2]).crossing}

\* abs(adjustedSpeed - targetSpeed) of a pair for the query on the sliders,
\* with adjustedSpeed = speed * (1 - slope/100 * 0.1) and
\* speed = ratio * circumference * cadence * 60 / 1000, written out from
\* these formulas.
ClaimDiff(p) ==
    LET ratio == Frac(crankset_teeth[p[1] + 1], cassette_teeth[p[2] + 1])
        metres == Frac(wheel_sizes[wheel_size_var], 1000)
        speed == FracMul(FracMul(ratio, metres), Frac(cadencia_var * 60, 1000))
        adjusted == FracMul(speed, Frac(1000 - slope_var, 1000))
    IN  FracAbs(FracSubInt(adjusted, target_speed_var))

\* The pair the search stopped on, and whether the panel shows its teeth.
ChosenPair == << results_frame.best_i, results_frame.best_j >>

ShowsChosenPair ==
    /\ ChosenPair \in Pairs
    /\ results_frame.best_chainring = crankset_teeth[results_frame.best_i + 1]
    /\ results_frame.best_sprocket = cassette_teeth[results_frame.best_j + 1]

\* p comes before q in the iteration order (chainring outer, sprocket inner).
Before(p, q) == p[1] < q[1] \/ (p[1] = q[1] /\ p[2] < q[2])

\* C1: if at least one pair is classified non-crossing, the pair chosen by
\* calculate_recommended_gear is a non-crossing pair and its crossing flag
\* is false.
C1_NoCrossingWhenAvoidable ==
    (results_frame.status = "shown" /\ NonCrossingPairs # {}) =>
        /\ ShowsChosenPair
        /\ ChosenPair \in NonCrossingPairs
        /\ ~results_frame.crossing
        /\ ~results_frame.second_pass

\* A recommendation in a configuration that has crossing pairs and others.
C1_Witness ==
    /\ results_frame.status = "shown"
    /\ NonCrossingPairs # {}
    /\ NonCrossingPairs # Pairs
    /\ \E p \in Pairs \ NonCrossingPairs :
           FracLess(ClaimDiff(p), ClaimDiff(ChosenPair))

\* C2: when every pair is classified crossing, the minimisation is repeated
\* over all pairs, and the crossing flag of the result is that of
\* is_chain_crossing at the indices (best_i, best_j) of the winner of that
\* second pass.
C2_FallbackOverAllPairs ==
    (results_frame.status = "shown" /\ Pairs # {} /\ NonCrossingPairs = {}) =>
        /\ results_frame.second_pass
        /\ ShowsChosenPair
        /\ \A p \in Pairs : ~FracLess(ClaimDiff(p), ClaimDiff(ChosenPair))
        /\ results_frame.crossing =
               is_chain_crossing(results_frame.best_i, results_frame.best_j).crossing
        /\ results_frame.crossing_message =
               is_chain_crossing(results_frame.best_i, results_frame.best_j).message
        /\ results_frame.crossing

\* A recommendation where every pair crosses and there are several pairs.
C2_Witness ==
    /\ results_frame.status = "shown"
    /\ Cardinality(Pairs) >= 4
    /\ NonCrossingPairs = {}
    /\ results_frame.crossing
    /\ ChosenPair # << 0, 0 >>

\* C3: the pair returned by the first pass minimises
\* abs(adjustedSpeed - targetSpeed) over the non-crossing pairs: no other
\* non-crossing pair has a strictly smaller difference.
C3_FirstPassMinimises ==
    (results_frame.status = "shown" /\ ~results_frame.second_pass) =>
        /\ ShowsChosenPair
        /\ ChosenPair \in NonCrossingPairs
        /\ \A p \in NonCrossingPairs : ~FracLess(ClaimDiff(p), ClaimDiff(ChosenPair))

\* A first-pass recommendation that is neither the first nor the last
\* non-crossing pair, on a slope.
C3_Witness ==
    /\ results_frame.status = "shown"
    /\ ~results_frame.second_pass
    /\ slope_var # 0
    /\ \E p \in NonCrossingPairs : Before(p, ChosenPair)
    /\ \E p \in NonCrossingPairs : Before(ChosenPair, p)
    /\ \A p \in NonCrossingPairs \ {ChosenPair} :
           FracLess(ClaimDiff(ChosenPair), ClaimDiff(p))

\* The pairs that took part in the pass that produced the result.
Candidates == IF results_frame.second_pass THEN Pairs ELSE NonCrossingPairs

\* C4: when several candidate pairs have the same minimal difference, the
\* one met first in chainring-major, sprocket-minor order is returned; a
\* later pair with an equal difference never replaces it.  (The
\* differences are those of the speeds, as numbers: of 12 and of 8 km/h to
\* a target of 10 km/h the difference is 2.)
C4_FirstOfEqualsWins ==
    (results_frame.status = "shown") =>
        /\ ShowsChosenPair
        /\ ChosenPair \in Candidates
        /\ \A p \in Candidates :
               (ClaimDiff(p) = ClaimDiff(ChosenPair)) => ~Before(p, ChosenPair)

\* C5: calculate_recommended_gear is idempotent: a call with the same
\* configuration, wheel size, cadence, target speed and slope as the call
\* before returns the same pair and the same crossing flag, and a call
\* leaves crankset_teeth, cassette_teeth and the wheel size unchanged.
\* The results frame is what a call reads and writes: a call that follows
\* a call finds the children of the one before in the frame, and leaves the
\* frame as it found it, children included.  (Under SpecRecom every step is
\* a call, and nothing else changes the configuration or the query.)
C5_Idempotent ==
    [][/\ (results_frame.status # "initial" => results_frame' = results_frame)
       /\ (results_frame'.status = "shown" =>
               /\ Len(results_frame'.widgets) = (IF results_frame'.crossing THEN 6 ELSE 5)
               /\ results_frame'.widgets[1] = "title")
       /\ crankset_teeth' = crankset_teeth
       /\ cassette_teeth' = cassette_teeth
       /\ wheel_size_var' = wheel_size_var]_vars

\* A call has been made and took the second pass: the frame holds the six
\* children of a recommendation with its warning, and the prompt is gone.
C5_Witness ==
    /\ results_frame.status = "shown"
    /\ results_frame.second_pass
    /\ results_frame.crossing
    /\ results_frame.widgets =
           << "title", "positions", "details", "warning", "tip", "advice" >>

\* validate_gear_configuration's conditions, as the claim states them.
Validated ==
    /\ crankset_teeth # << >>
    /\ cassette_teeth # << >>
    /\ \A x \in DOMAIN crankset_teeth :
           MIN_TEETH <= crankset_teeth[x] /\ crankset_teeth[x] <= MAX_TEETH
    /\ \A x \in DOMAIN cassette_teeth :
           MIN_TEETH <= cassette_teeth[x] /\ cassette_teeth[x] <= MAX_TEETH

\* What C6 promises of a call: no error, and a recommended pair that
\* belongs to the configuration.
CompletesWithPair ==
    /\ results_frame.status = "shown"
    /\ \E x \in DOMAIN crankset_teeth :
           crankset_teeth[x] = results_frame.best_chainring
    /\ \E x \in DOMAIN cassette_teeth :
           cassette_teeth[x] = results_frame.best_sprocket
    /\ ShowsChosenPair

\* C6 as the specification states it: for every validated configuration
\* and every query, calculate_recommended_gear completes without an error
\* and yields a recommended (chainring, sprocket) pair that belongs to the
\* configuration.  A wheel size that is no key of wheel_sizes refutes it.
C6_CompletesOnValidated ==
    (Validated /\ results_frame.status # "initial") => CompletesWithPair

\* C6, amended: for every validated configuration whose wheel size is a
\* key of wheel_sizes and every query, calculate_recommended_gear completes
\* without an error and yields a recommended (chainring, sprocket) pair
\* that belongs to the configuration.
C6_CompletesOnKnownWheel ==
    (Validated /\ wheel_size_var \in DOMAIN wheel_sizes
               /\ results_frame.status # "initial") =>
        /\ results_frame.status = "shown"
        /\ \E x \in DOMAIN crankset_teeth :
               crankset_teeth[x] = results_frame.best_chainring
        /\ \E x \in DOMAIN cassette_teeth :
               cassette_teeth[x] = results_frame.best_sprocket
        /\ ShowsChosenPair

\* A recommendation on a validated configuration of four chainrings.
C6_Witness ==
    /\ Validated
    /\ wheel_size_var \in DOMAIN wheel_sizes
    /\ Len(crankset_teeth) = 4
    /\ Len(cassette_teeth) >= 5
    /\ results_frame.status = "shown"

(***************************************************************************)
(* Properties of the configuration (checked under SpecHandlers).           *)
(***************************************************************************)
IsDescending(s) == \A x \in 1..(Len(s) - 1) : s[x] >= s[x + 1]

IsAscending(s) == \A x \in 1..(Len(s) - 1) : s[x] <= s[x + 1]

\* The same items with the same multiplicities.
SameItems(s, t) ==
    /\ Len(s) = Len(t)
    /\ \A x \in DOMAIN s :
           Cardinality({y \in DOMAIN s : s[y] = s[x]})
               = Cardinality({y \in DOMAIN t : t[y] = s[x]})

\* C11: after the road preset is selected the session holds the chainrings
\* [50, 34] and the 7 sprockets [14, 16, 18, 20, 22, 24, 28]; extreme_count
\* is 2, the pair (chainring index 0, sprocket index 0) is no crossing, and
\* the large chainring crosses the sprocket indices 5 and 6 and no other.
C11_RoadPreset ==
    bike_type_var = "road" =>
        /\ crankset_teeth = << 50, 34 >>
        /\ cassette_teeth = << 14, 16, 18, 20, 22, 24, 28 >>
        /\ extreme_count_double(Len(cassette_teeth)) = 2
        /\ ~is_chain_crossing(0, 0).crossing
        /\ {j \in 0..(Len(cassette_teeth) - 1) : is_chain_crossing(0, j).crossing}
               = {5, 6}

\* The road preset selected, its large chainring on the largest sprocket.
C11_Witness ==
    /\ bike_type_var = "road"
    /\ crankset_teeth[1] = 50
    /\ is_chain_crossing(0, 6).crossing
    /\ manual_config_button = "disabled"

\* C12: a step that selects a preset other than custom leaves in
\* crankset_teeth the preset's chainrings in descending order and in
\* cassette_teeth its sprockets in ascending order, the same items with the
\* same multiplicities, in whatever order the preset lists them; and the
\* preset's own lists stay as they were.
C12_PresetSortedCopy ==
    [][bike_type_var' # "custom" =>
          \A b \in DOMAIN presets :
              presets[b].value = bike_type_var' =>
                  /\ IsDescending(crankset_teeth')
                  /\ SameItems(crankset_teeth', presets[b].chainrings)
                  /\ IsAscending(cassette_teeth')
                  /\ SameItems(cassette_teeth', presets[b].sprockets)
                  /\ presets' = presets]_vars

\* The road entry, which lists its chainrings from the smallest to the
\* largest, selected in a session that has switched to the technical mode.
C12_Witness ==
    /\ bike_type_var = "road"
    /\ presets[2].chainrings = << 34, 50 >>
    /\ crankset_teeth = << 50, 34 >>
    /\ presets[2].sprockets = << 14, 16, 18, 20, 22, 24, 28 >>
    /\ cassette_teeth = presets[2].sprockets
    /\ technical_mode

\* C13: in every state reached by select_bike_type and save_custom_gears
\* calls, accepted or rejected, crankset_teeth runs from the largest to the
\* smallest chainring and cassette_teeth from the smallest to the largest
\* sprocket.
C13_TeethListsOrdered ==
    /\ IsDescending(crankset_teeth)
    /\ IsAscending(cassette_teeth)

\* A save_custom_gears call the program rejects, as the claim lists the
\* cases: a list left empty, or an entry that is no integer.
RejectedEntry(platos_text, pinones_text) ==
    \/ platos_text = << >>
    \/ pinones_text = << >>
    \/ \E x \in DOMAIN platos_text : ~is_int(platos_text[x])
    \/ \E x \in DOMAIN pinones_text : ~is_int(pinones_text[x])

\* C14: a rejected save_custom_gears call leaves crankset_teeth and
\* cassette_teeth as they were before the call.
C14_RejectedSaveChangesNothing ==
    [][\A platos_text \in PlatosTexts, pinones_text \in PinonesTexts :
           (RejectedEntry(platos_text, pinones_text)
            /\ save_custom_gears(platos_text, pinones_text))
               => UNCHANGED << crankset_teeth, cassette_teeth >>]_vars

\* C15: visualize_bike and calculate_recommended_gear compute ratios, speeds
\* or crossings only on a validated configuration: a step that builds the
\* gear table, or that ends with a recommendation shown, starts in a state
\* where both lists are non-empty and every tooth count is in 11..53.
C15_ComputesOnlyValidated ==
    [][(\/ calculate_recommended_gear /\ results_frame'.status = "shown"
        \/ /\ visualize_bike \/ change_mode(TRUE)
           /\ visual_tab'.status = "shown"
           /\ results_frame' = InitialPanel)
           => Validated]_vars

(***************************************************************************)
(* Properties of the two functions called directly (checked under          *)
(* SpecDirect).                                                            *)
(***************************************************************************)
\* C16: validate_gear_configuration returns True exactly when both lists
\* are non-empty and every tooth count of both is in 11..53, and never
\* changes crankset_teeth or cassette_teeth.
C16_ValidateExact ==
    [][check_gear_configuration =>
          /\ validation_check'.result <=> Validated
          /\ UNCHANGED << crankset_teeth, cassette_teeth >>]_vars

\* Refused although every chainring is in range: a sprocket is not.
C16_Witness ==
    /\ validation_check.called
    /\ ~validation_check.result
    /\ validation_check.message = "Invalid configuration"
    /\ \A x \in DOMAIN crankset_teeth :
           MIN_TEETH <= crankset_teeth[x] /\ crankset_teeth[x] <= MAX_TEETH
    /\ \E x \in DOMAIN cassette_teeth : cassette_teeth[x] > MAX_TEETH

\* C17: calculate_gear_ratio with sprocket = 0 ends in an error that
\* reaches its caller; with any other sprocket it returns
\* chainring / sprocket.
C17_ZeroSprocketFails ==
    ratio_check.called =>
        IF ratio_check.sprocket = 0
        THEN ratio_check.raised
        ELSE /\ ~ratio_check.raised
             /\ ratio_check.value.den > 0
             /\ ratio_check.value.num * ratio_check.sprocket
                    = ratio_check.chainring * ratio_check.value.den

(***************************************************************************)
(* Properties of the advice (checked under SpecAdvice).                    *)
(***************************************************************************)
\* The categories whose condition, as the claim words it, the slope meets.
AdviceCategories(slope) ==
    {c \in {"steep", "mild", "descent", "flat"} :
        \/ c = "steep" /\ slope > 8
        \/ c = "mild" /\ 0 < slope /\ slope <= 8
        \/ c = "descent" /\ slope < -5
        \/ c = "flat" /\ -5 <= slope /\ slope <= 0}

\* C18: the advice shown with a recommendation is the category of the
\* slope alone: steep above 8, mild in 1..8, descent below -5, flat in
\* -5..0; every integer slope of -10..20 meets exactly one condition.
C18_AdviceBySlope ==
    /\ \A slope \in MIN_SLOPE..MAX_SLOPE : Cardinality(AdviceCategories(slope)) = 1
    /\ results_frame.status = "shown" =>
           AdviceCategories(slope_var) = {results_frame.advice}

\* A recommendation shown at the last slope of the mild climb.
C18_Witness ==
    /\ results_frame.status = "shown"
    /\ slope_var = 8
    /\ results_frame.advice = "mild"

(***************************************************************************)
(* Properties of the overlap analysis (checked under SpecOverlap).         *)
(***************************************************************************)
\* A step that builds the technical tab from the configuration.
BuildsTechTab ==
    /\ validate_gear_configuration.result
    /\ \/ visualize_bike /\ technical_mode
       \/ change_mode(TRUE)

AdjacentPairs == 0..(Len(crankset_teeth) - 2)

\* The overlap of the pair (i, i + 1) has a start not above its end.
RangesMeet(i) ==
    LET r == ratio_ranges(i)
    IN  ~FracLess(FracMin(r.max_ratio1, r.max_ratio2),
                  FracMax(r.min_ratio1, r.min_ratio2))

\* The range of chainring i that the analysis uses is a single point.
SinglePoint(i) == ratio_ranges(i).max_ratio1 = ratio_ranges(i).min_ratio1

\* C19: when the ratio range of a chainring is a single point and the
\* overlap start is not above the overlap end, calculate_overlap_analysis
\* gives its text, with 100% for that pair, and no division by zero ends
\* the analysis.
C19_SinglePointIsFull ==
    [][BuildsTechTab =>
          \A i \in AdjacentPairs :
              SinglePoint(i) /\ RangesMeet(i) =>
                  /\ tech_tab'.overlap_text.status = "text"
                  /\ tech_tab'.overlap_text.pairs[i + 1].overlap_pct
                         = Frac(100, 1)]_vars

\* What the claim gives for the pair (i, i + 1).
ExpectedOverlap(i) ==
    LET r == ratio_ranges(i)
        overlapStart == FracMax(r.min_ratio1, r.min_ratio2)
        overlapEnd == FracMin(r.max_ratio1, r.max_ratio2)
        width == FracSub(r.max_ratio1, r.min_ratio1)
        pct == FracMul(FracDiv(FracSub(overlapEnd, overlapStart), width),
                       Frac(100, 1))
    IN  IF FracLess(overlapEnd, overlapStart)
        THEN [overlap |-> FALSE, overlap_start |-> None, overlap_end |-> None,
              overlap_pct |-> None, evaluation |-> "None"]
        ELSE [overlap |-> TRUE, overlap_start |-> overlapStart,
              overlap_end |-> overlapEnd, overlap_pct |-> pct,
              evaluation |-> IF FracLess(pct, Frac(10, 1)) THEN "low"
                             ELSE IF FracLess(pct, Frac(30, 1)) THEN "moderate"
                             ELSE "high"]

\* C20: for each adjacent pair the analysis has overlapStart = max(min1,
\* min2) and overlapEnd = min(max1, max2); with overlapStart <= overlapEnd
\* the percentage (overlapEnd - overlapStart) / (max1 - min1) * 100, low
\* below 10, moderate below 30, else high; with overlapStart > overlapEnd no
\* overlap.  (Where no range that meets the next is a single point.)
C20_OverlapOfAdjacentPairs ==
    [][BuildsTechTab /\ Len(crankset_teeth) >= 2
       /\ (\A i \in AdjacentPairs : ~(SinglePoint(i) /\ RangesMeet(i))) =>
          /\ tech_tab'.overlap_text.status = "text"
          /\ \A i \in AdjacentPairs :
                 LET pair == tech_tab'.overlap_text.pairs[i + 1]
                     expected == ExpectedOverlap(i)
                 IN  /\ pair.overlap = expected.overlap
                     /\ pair.overlap_start = expected.overlap_start
                     /\ pair.overlap_end = expected.overlap_end
                     /\ pair.overlap_pct = expected.overlap_pct
                     /\ pair.evaluation = expected.evaluation]_vars

\* The ratios of chainring c (from 0) on the sprockets it does not cross.
UsableRatios(c) ==
    {Frac(crankset_teeth[c + 1], cassette_teeth[j + 1]) :
        j \in {k \in 0..(Len(cassette_teeth) - 1) : ~is_chain_crossing(c, k).crossing}}

\* The ratios of chainring c (from 0) on every sprocket.
EveryRatio(c) ==
    {Frac(crankset_teeth[c + 1], cassette_teeth[j + 1]) :
        j \in 0..(Len(cassette_teeth) - 1)}

LeastOf(S) == CHOOSE x \in S : \A y \in S : ~FracLess(y, x)

GreatestOf(S) == CHOOSE x \in S : \A y \in S : ~FracLess(x, y)

\* C21: for each adjacent pair the analysis takes the least and greatest of
\* the non-crossing ratios of both chainrings when each of the two has a
\* non-crossing ratio, and of all their ratios, crossings included, as soon
\* as one of the two has none.
C21_RangesWithoutCrossings ==
    [][BuildsTechTab /\ tech_tab'.overlap_text.status = "text" =>
          \A i \in AdjacentPairs :
              LET both == UsableRatios(i) # {} /\ UsableRatios(i + 1) # {}
                  S1 == IF both THEN UsableRatios(i) ELSE EveryRatio(i)
                  S2 == IF both THEN UsableRatios(i + 1) ELSE EveryRatio(i + 1)
                  start == FracMax(LeastOf(S1), LeastOf(S2))
                  end == FracMin(GreatestOf(S1), GreatestOf(S2))
                  pair == tech_tab'.overlap_text.pairs[i + 1]
              IN  /\ pair.crossings = IF both THEN "without" ELSE "including"
                  /\ IF FracLess(end, start)
                     THEN ~pair.overlap
                     ELSE /\ pair.overlap
                          /\ pair.overlap_start = start
                          /\ pair.overlap_end = end]_vars

\* An analysis with a pair whose ranges include the crossings (a chainring
\* of it crosses on every sprocket) and that overlaps.
C21_Witness ==
    /\ technical_mode
    /\ tech_tab.overlap_text.status = "text"
    /\ \E x \in DOMAIN tech_tab.overlap_text.pairs :
           /\ tech_tab.overlap_text.pairs[x].crossings = "including"
           /\ tech_tab.overlap_text.pairs[x].overlap

(***************************************************************************)
(* Properties of what is shown with a recommendation (checked under        *)
(* SpecRecom).                                                             *)
(***************************************************************************)
\* C22: the speed, gear ratio and development shown with a recommendation
\* are those of the chosen pair at the cadence of the query, with no slope
\* factor: ratio = chainring / sprocket, speed = ratio * circumference *
\* cadence * 60 / 1000, development = ratio * circumference.
C22_ReportedWithoutSlope ==
    results_frame.status = "shown" =>
        LET ratio == Frac(results_frame.best_chainring, results_frame.best_sprocket)
            circumference == Frac(wheel_sizes[wheel_size_var], 1000)
        IN  /\ results_frame.gear_ratio = ratio
            /\ results_frame.actual_speed =
                   FracMul(FracMul(ratio, circumference),
                           Frac(cadencia_var * 60, 1000))
            /\ results_frame.development = FracMul(ratio, circumference)

\* A recommendation on the steepest climb: the speed shown is the speed of
\* the pair, not the adjusted speed the search compared with the target.
C22_Witness ==
    /\ results_frame.status = "shown"
    /\ slope_var = 20
    /\ results_frame.actual_speed # None
    /\ results_frame.actual_speed # adjusted_speed(results_frame.actual_speed, slope_var)
    /\ results_frame.development # None

\* C28: the chainring and sprocket positions shown with a recommendation
\* are the indices of the pair the search chose, also when a teeth list
\* holds the same tooth count more than once.
C28_PositionsOfChosenPair ==
    results_frame.status = "shown" =>
        /\ results_frame.chainring_idx = results_frame.best_i + 1
        /\ results_frame.sprocket_idx = results_frame.best_j + 1

(***************************************************************************)
(* Properties of the gear table (checked under SpecOverlap).               *)
(***************************************************************************)
\* A step that builds the gear table from the configuration.
BuildsGearTable ==
    /\ validate_gear_configuration.result
    /\ visualize_bike \/ change_mode(TRUE)

\* C23: in the gear table a cell shows '---' exactly when is_chain_crossing
\* is true for its chainring and sprocket index; the crossing count shown
\* is the number of such cells, the total shown is len(crankset_teeth) *
\* len(cassette_teeth), and the count is at most the total.
C23_GearTableMarksCrossings ==
    [][BuildsGearTable =>
          LET table == visual_tab'
              cells == (1..Len(crankset_teeth)) \X (1..Len(cassette_teeth))
          IN  /\ table.status = "shown"
              /\ Len(table.rows) = Len(crankset_teeth)
              /\ \A p \in cells :
                     ~table.rows[p[1]][p[2]].shown
                         <=> is_chain_crossing(p[1] - 1, p[2] - 1).crossing
              /\ table.crossing_count =
                     Cardinality({p \in cells : ~table.rows[p[1]][p[2]].shown})
              /\ table.total_combinations = Len(crankset_teeth) * Len(cassette_teeth)
              /\ table.crossing_count <= table.total_combinations]_vars

\* A table of three chainrings with a row that has cells of both kinds.
C23_Witness ==
    /\ visual_tab.status = "shown"
    /\ Len(visual_tab.rows) = 3
    /\ visual_tab.crossing_count > 0
    /\ visual_tab.crossing_count < visual_tab.total_combinations
    /\ \E c1, c2 \in DOMAIN visual_tab.rows[2] :
           visual_tab.rows[2][c1].shown /\ ~visual_tab.rows[2][c2].shown

(***************************************************************************)
(* Properties of the crossings over a whole configuration (checked under   *)
(* SpecRecom and SpecClassifier).                                          *)
(***************************************************************************)
ChainringIdxs == 0..(Len(crankset_teeth) - 1)

SprocketIdxs == 0..(Len(cassette_teeth) - 1)

\* C24: with at least 3 sprockets and 1 to 5 chainrings every chainring has
\* a sprocket index that is no crossing; so calculate_recommended_gear never
\* takes the fallback over the crossing pairs and its crossing flag is
\* false.
C24_EveryChainringUsable ==
    (Len(cassette_teeth) >= 3 /\ Len(crankset_teeth) \in 1..5) =>
        /\ \A i \in ChainringIdxs :
               \E j \in SprocketIdxs : ~is_chain_crossing(i, j).crossing
        /\ results_frame.status # "initial" =>
               ~results_frame.second_pass /\ ~results_frame.crossing

\* A recommendation on a triple chainring with 3 sprockets, found by the
\* first loop.
C24_Witness ==
    /\ Len(crankset_teeth) = 3
    /\ Len(cassette_teeth) = 3
    /\ results_frame.status = "shown"
    /\ ~results_frame.second_pass
    /\ \E j \in SprocketIdxs : is_chain_crossing(1, j).crossing

\* C25: with at least 2 chainrings and exactly 1 sprocket every pair is a
\* crossing, so calculate_recommended_gear takes the fallback pass and the
\* pair it shows is flagged as a crossing.
C25_OneSprocketAllCross ==
    (Len(crankset_teeth) >= 2 /\ Len(cassette_teeth) = 1) =>
        /\ \A i \in ChainringIdxs : is_chain_crossing(i, 0).crossing
        /\ results_frame.status # "initial" =>
               /\ results_frame.status = "shown"
               /\ results_frame.second_pass
               /\ results_frame.crossing

\* A recommendation on four chainrings and one sprocket, flagged.
C25_Witness ==
    /\ Len(crankset_teeth) = 4
    /\ Len(cassette_teeth) = 1
    /\ results_frame.status = "shown"
    /\ results_frame.second_pass
    /\ results_frame.crossing
    /\ results_frame.best_i > 0

\* C26: with 2 to 5 chainrings and at least 4 sprockets every sprocket
\* index is no crossing on at least one chainring; a call of
\* is_chain_crossing that answers True has a chainring that answers False
\* for the same sprocket.
C26_EverySprocketUsable ==
    (Len(crankset_teeth) \in 2..5 /\ Len(cassette_teeth) >= 4) =>
        /\ \A j \in SprocketIdxs :
               \E i \in ChainringIdxs : ~is_chain_crossing(i, j).crossing
        /\ (/\ crossing_check.called
            /\ crossing_check.crossing
            /\ crossing_check.sprocket_idx \in SprocketIdxs) =>
               \E i \in ChainringIdxs \ {crossing_check.chainring_idx} :
                   ~is_chain_crossing(i, crossing_check.sprocket_idx).crossing

\* A double chainring with 4 sprockets: is_chain_crossing answered True for
\* the large chainring on sprocket index 2, which the small chainring can
\* use.
C26_Witness ==
    /\ Len(crankset_teeth) = 2
    /\ Len(cassette_teeth) = 4
    /\ crossing_check.called
    /\ crossing_check.crossing
    /\ crossing_check.chainring_idx = 0
    /\ crossing_check.sprocket_idx = 2
    /\ ~is_chain_crossing(1, 2).crossing

(***************************************************************************)
(* Properties of the recommendation over the target speeds (checked under  *)
(* SpecTarget).                                                            *)
(***************************************************************************)
\* The gear ratio of the pair a panel recommends.
RatioOf(panel) == Frac(panel.best_chainring, panel.best_sprocket)

\* C27: for a fixed configuration, wheel size, cadence and slope, the gear
\* ratio of the recommended pair does not decrease when the target speed
\* rises: the pair recommended one km/h higher has no lower ratio.
C27_RatioMonotoneInTarget ==
    [][(/\ calculate_recommended_gear
        /\ results_frame'.status = "shown"
        /\ target_speed_var < MAX_TARGET_SPEED) =>
          LET higher == recommended_gear(target_speed_var + 1, slope_var,
                                         cadencia_var)
          IN  /\ higher.status = "shown"
              /\ ~FracLess(RatioOf(higher), RatioOf(results_frame'))]_vars

\* A recommendation whose ratio is above the one a target speed one km/h
\* lower gets, on the steepest climb.
C27_Witness ==
    /\ results_frame.status = "shown"
    /\ slope_var = MAX_SLOPE
    /\ target_speed_var > MIN_TARGET_SPEED
    /\ LET lower == recommended_gear(target_speed_var - 1, slope_var, cadencia_var)
       IN  /\ lower.status = "shown"
           /\ FracLess(RatioOf(lower), RatioOf(results_frame))

(***************************************************************************)
(* Properties of the selection of a bike type (checked under SpecHandlers).*)
(***************************************************************************)
\* C29: the manual configuration button is enabled exactly when the bike
\* type selected last is custom; a step that selects custom leaves
\* crankset_teeth and cassette_teeth empty, whatever was saved before, and a
\* step that selects a preset leaves the preset's lists in their place.
C29_ButtonAndListsFollowType ==
    /\ [](manual_config_button = "normal" <=> bike_type_var = "custom")
    /\ [][\A b \in DOMAIN presets :
              select_bike_type(presets[b]) =>
                  IF presets[b].value = "custom"
                  THEN crankset_teeth' = << >> /\ cassette_teeth' = << >>
                  ELSE /\ SameItems(crankset_teeth', presets[b].chainrings)
                       /\ SameItems(cassette_teeth', presets[b].sprockets)]_vars

\* Custom selected again after a manual configuration of two chainrings
\* and two sprockets had been saved and visualized: the lists are empty.
C29_Witness ==
    /\ bike_type_var = "custom"
    /\ manual_config_button = "normal"
    /\ crankset_teeth = << >>
    /\ cassette_teeth = << >>
    /\ visual_tab.status = "shown"
    /\ Len(visual_tab.rows) = 2
    /\ Len(visual_tab.rows[1]) = 2

\* C30: the wheel size select_bike_type sets and every wheel size it offers
\* are keys of the wheel_sizes catalogue, so that calculate_speed finds the
\* circumference.
C30_WheelSizesInCatalogue ==
    /\ wheel_size_var \in DOMAIN wheel_sizes
    /\ wheel_combo_values \subseteq DOMAIN wheel_sizes
    /\ calculate_speed(Frac(1, 1), cadencia_var) # None

\* The urban preset selected: its default size set, its four sizes offered.
C30_Witness ==
    /\ bike_type_var = "urban"
    /\ wheel_size_var = "700x35C"
    /\ wheel_combo_values = {"700x35C", "700x38C", "700x40C", "26x1.75"}

====
